---------------------------- MODULE Spec2Model ----------------------------
(***************************************************************************)
(* Legal-document intelligence pipeline of backend/app/services:           *)
(*   predictive_analytics_service.py  outcome probabilities                *)
(*   risk_analysis_service.py         clause and document risk scoring     *)
(*   clause_extraction_service.py     clause extraction / classification   *)
(*                                                                         *)
(* Numbers.  Python floats are modelled by exact integers in a fixed unit: *)
(*   probabilities          thousandths   (round(v, 3) yields these)       *)
(*   clause/document scores hundredths    (round(v, 2) yields these)       *)
(*   risk weights           tenths                                         *)
(*   confidences            a fraction <<numerator, denominator>>          *)
(* round() is round-half-to-even on the exact value.  Where the exact      *)
(* value is a tie that the float computation only approximates, both       *)
(* neighbours are possible results (RoundChoices).                         *)
(***************************************************************************)
EXTENDS Integers, Sequences, FiniteSets, TLC

VARIABLES
    \* ---- PredictiveAnalyticsService.predict_litigation_outcome ----
    pcPredict,        \* position of the call
    precedent_store,  \* outcomes of the CasePrecedent rows matching the filter
    stored_assessment,\* latest RiskAssessment row of the document, or NoneVal
    risk_assessment,  \* local: the row read by the call
    precedents,       \* local: result of _find_similar_cases
    outcome_stats,    \* local: the four outcome probabilities (thousandths)
    \* ---- RiskAnalysisService._analyze_clause_risk on one clause ----
    pcClause,         \* position of the call
    clause,           \* the ExtractedClause passed in
    analysis,         \* the clause analysis returned
    \* ---- RiskAnalysisService.analyze_document_risk ----
    pcRisk,           \* position of the call
    document,         \* argument: the document object
    include_precedents, \* argument
    document_clauses, \* what extract_clauses(document_text) yields
    clauses,          \* local (line 88)
    clause_analyses,  \* local
    high_risk_clauses,\* local
    average_risk,     \* local: the fraction <<n, d>> of hundredths
    overall_risk_level, \* local
    cases,            \* _find_relevant_precedents: result of search_cases
    risk_precedents,  \* local `precedents` of analyze_document_risk
    precedent_error,  \* which step of the precedent lookup raised, or ""
    recommendations,  \* local
    session_new,      \* rows added to the session and not yet committed
    session_added,    \* every row passed to session.add by the call, in order
    db_rows,          \* rows committed to the database
    save_error,       \* which step of _save_risk_assessment raised, or ""
    result,           \* the dictionary returned
    \* ---- calls on the ClauseExtractionService singleton ----
    service,          \* the instance's attributes (section_pattern)
    class_patterns,   \* the class attribute CLAUSE_PATTERNS
    requests,         \* per call: operation and arguments
    pcCall,           \* per call: position
    frames,           \* per frame: the local variables
    returned,         \* per call: the value returned
    \* ---- LegalCitationParser ----
    pcCite,           \* position of the client
    input_text,       \* the text passed in
    parsed_citation,  \* result of parse_citation(input_text)
    formatted,        \* result of format_citation(parsed_citation, style)
    reparsed,         \* result of parse_citation(formatted)
    citations,        \* result of extract_citations_from_text(input_text)
    \* ---- CaseRankingService.rank_cases_by_relevance ----
    pcRank,           \* position of the call
    rank_input,       \* arguments: cases, document, practice_area
    ranked,           \* local: the list being built and returned
    \* ---- PredictiveAnalyticsService.estimate_settlement_amount ----
    pcSettle,         \* position of the call
    settlement_store, \* settlement_amount of the rows of the practice area
    claim_amount,     \* argument: None or Some(amount)
    settlements,      \* local: the amounts of the precedents found
    settlement_stats, \* local: the settlement statistics (stats)
    estimate,         \* the dictionary returned
    \* ---- PredictiveAnalyticsService.predict_case_timeline ----
    pcTimeline,       \* position in predict_case_timeline
    timeline_store,   \* case_precedents rows of the practice area
    timeline_area,    \* practice_area
    case_stage,       \* case_stage
    timelines,        \* timelines
    timeline,         \* the dictionary returned
    \* ---- get_clause_extraction_service, get_citation_parser ----
    pcFactory,        \* position of each caller in its factory
    factory_of,       \* the factory each caller calls
    instances,        \* _extraction_service_instance, _parser_instance
    constructed,      \* the instance a caller constructed and has not yet assigned
    created,          \* number of instances constructed per factory
    handed,           \* the instances returned to each caller
    \* ---- CourtListenerClient.search_cases ----
    search_cache,     \* self._cache: cache key -> (data, timestamp)
    clock,            \* datetime.now(), in hours
    searches,         \* calls made so far
    search_call,      \* arguments of the latest call
    search_returned,  \* what the latest call returned
    \* ---- EnhancedDocumentProcessingService.process_legal_document ----
    pcProcess,        \* position of the call
    process_input,    \* arguments: the document as passed in, enable_precedent_search
    process_document, \* the document object
    process_results,  \* local: results
    risk_outcome      \* whether analyze_document_risk returned or raised in this run

predictVars == <<pcPredict, precedent_store, stored_assessment,
                 risk_assessment, precedents, outcome_stats>>
clauseVars == <<pcClause, clause, analysis>>

riskVars == <<pcRisk, document, include_precedents, document_clauses, clauses,
              clause_analyses, high_risk_clauses, average_risk,
              overall_risk_level, cases, risk_precedents, precedent_error,
              recommendations, session_new, session_added, db_rows, save_error, result>>

extractVars == <<service, class_patterns, requests, pcCall, frames, returned>>

citationVars == <<pcCite, input_text, parsed_citation, formatted,
                  reparsed, citations>>

rankVars == <<pcRank, rank_input, ranked>>

settleVars == <<pcSettle, settlement_store, claim_amount, settlements,
                settlement_stats, estimate>>

timelineVars == <<pcTimeline, timeline_store, timeline_area, case_stage,
                  timelines, timeline>>

factoryVars == <<pcFactory, factory_of, instances, constructed, created,
                 handed>>

searchVars == <<search_cache, clock, searches, search_call, search_returned>>

processVars == <<pcProcess, process_input, process_document, process_results,
                 risk_outcome>>

vars == <<predictVars, clauseVars, riskVars, extractVars, citationVars,
          rankVars, settleVars, timelineVars, factoryVars, searchVars,
          processVars>>

otherThanPredict == <<clauseVars, riskVars, extractVars, citationVars,
                      rankVars, settleVars, timelineVars, factoryVars,
                      searchVars, processVars>>
otherThanClause == <<predictVars, riskVars, extractVars, citationVars,
                     rankVars, settleVars, timelineVars, factoryVars,
                     searchVars, processVars>>
otherThanRisk == <<predictVars, clauseVars, extractVars, citationVars,
                   rankVars, settleVars, timelineVars, factoryVars,
                   searchVars, processVars>>
otherThanExtract == <<predictVars, clauseVars, riskVars, citationVars,
                      rankVars, settleVars, timelineVars, factoryVars,
                      searchVars, processVars>>
otherThanCitation == <<predictVars, clauseVars, riskVars, extractVars,
                       rankVars, settleVars, timelineVars, factoryVars,
                       searchVars, processVars>>
otherThanRank == <<predictVars, clauseVars, riskVars, extractVars,
                   citationVars, settleVars, timelineVars, factoryVars,
                   searchVars, processVars>>
otherThanSettle == <<predictVars, clauseVars, riskVars, extractVars,
                     citationVars, rankVars, timelineVars, factoryVars,
                     searchVars, processVars>>
otherThanTimeline == <<predictVars, clauseVars, riskVars, extractVars,
                       citationVars, rankVars, settleVars, factoryVars,
                       searchVars, processVars>>
otherThanFactory == <<predictVars, clauseVars, riskVars, extractVars,
                      citationVars, rankVars, settleVars, timelineVars,
                      searchVars, processVars>>
otherThanSearch == <<predictVars, clauseVars, riskVars, extractVars,
                     citationVars, rankVars, settleVars, timelineVars,
                     factoryVars, processVars>>
otherThanProcess == <<predictVars, clauseVars, riskVars, extractVars,
                      citationVars, rankVars, settleVars, timelineVars,
                      factoryVars, searchVars>>

NoneVal == "None"

\* "no RiskAssessment row": .first() returned None
\* outcome_stats before it is assigned, and after a call that raised
NoStats == [plaintiff_victory |-> 0, defendant_victory |-> 0, settlement |-> 0, dismissed |-> 0]

NoAssessment == [present |-> FALSE, overall_risk_score |-> 0]

-----------------------------------------------------------------------------
(* Arithmetic helpers                                                      *)

Min(a, b) == IF a <= b THEN a ELSE b
Max(a, b) == IF a >= b THEN a ELSE b
Abs(a) == IF a >= 0 THEN a ELSE -a

RECURSIVE SumSeq(_)
SumSeq(s) == IF s = <<>> THEN 0 ELSE Head(s) + SumSeq(Tail(s))

\* Python round(): n/d (d > 0) rounded to the nearest integer, ties to even.
RoundHalfEven(n, d) ==
    LET q == n \div d
        r == n % d
    IN  IF 2 * r > d THEN q + 1
        ELSE IF 2 * r < d THEN q
        ELSE IF q % 2 = 0 THEN q ELSE q + 1

\* round() of a float that only approximates n/d: at an exact tie the float
\* lies on either side, so both neighbours can result.
RoundChoices(n, d) ==
    LET q == n \div d
        r == n % d
    IN  IF 2 * r = d THEN {q, q + 1} ELSE {RoundHalfEven(n, d)}

-----------------------------------------------------------------------------
(* predictive_analytics_service.py                                         *)

MaxPrecedents == 3       \* size bound of the filtered precedent population
ScoreStepTenths == 10    \* grid step of the stored overall_risk_score (tenths)

\* models/case_precedent.py: CaseOutcome
CaseOutcome == {"plaintiff", "defendant", "settlement", "dismissed",
                "mixed", "pending", "unknown"}

OutcomeKeys == {"plaintiff_victory", "defendant_victory", "settlement", "dismissed"}

\* RiskAssessment.overall_risk_score, 0-10 scale, in tenths
RiskScores == {s \in 0..100 : s % ScoreStepTenths = 0}

PrecedentLists == UNION {[1..n -> CaseOutcome] : n \in 0..MaxPrecedents}

\* outcome_counts.get(key, 0)
OutcomeCount(precs, key) == Cardinality({i \in DOMAIN precs : precs[i] = key})

\* _calculate_outcome_probabilities: count by outcome, divide by the total,
\* round(v, 3).  The keys looked up are "plaintiff_win" and "defendant_win".
CalculateOutcomeProbabilities(precs) ==
    IF precs = <<>>
    THEN [plaintiff_victory |-> 330, defendant_victory |-> 330,
          settlement |-> 340, dismissed |-> 0]
    ELSE LET total == Len(precs)
         IN [plaintiff_victory |-> RoundHalfEven(1000 * OutcomeCount(precs, "plaintiff_win"), total),
             defendant_victory |-> RoundHalfEven(1000 * OutcomeCount(precs, "defendant_win"), total),
             settlement        |-> RoundHalfEven(1000 * OutcomeCount(precs, "settlement"), total),
             dismissed         |-> RoundHalfEven(1000 * OutcomeCount(precs, "dismissed"), total)]

\* _adjust_for_risk_factors, before the normalisation: the shifted values in
\* units of 1/2000 (risk_factor = (risk_score - 5.0) / 10.0 = d / 100).
ShiftedStats(stats, risk_score) ==
    LET d == risk_score - 50
    IN  IF d > 0
        THEN [plaintiff_victory |-> 2 * stats.plaintiff_victory - 3 * d,
              defendant_victory |-> 2 * stats.defendant_victory + d,
              settlement        |-> 2 * stats.settlement + 2 * d,
              dismissed         |-> 2 * stats.dismissed]
        ELSE [plaintiff_victory |-> 2 * stats.plaintiff_victory + 2 * Abs(d),
              defendant_victory |-> 2 * stats.defendant_victory - Abs(d),
              settlement        |-> 2 * stats.settlement - Abs(d),
              dismissed         |-> 2 * stats.dismissed]

StatsTotal(st) == st.plaintiff_victory + st.defendant_victory + st.settlement + st.dismissed

\* _adjust_for_risk_factors: the set of results of {k: round(v / total, 3)}
AdjustForRiskFactors(stats, risk_score) ==
    LET adjusted == ShiftedStats(stats, risk_score)
        total == StatsTotal(adjusted)
    IN  {[plaintiff_victory |-> p, defendant_victory |-> d, settlement |-> s, dismissed |-> m] :
            p \in RoundChoices(1000 * adjusted.plaintiff_victory, total),
            d \in RoundChoices(1000 * adjusted.defendant_victory, total),
            s \in RoundChoices(1000 * adjusted.settlement, total),
            m \in RoundChoices(1000 * adjusted.dismissed, total)}

\* the variables of this part when another part of the service is run
PredictIdle ==
    /\ pcPredict = "idle"
    /\ precedent_store = <<>>
    /\ stored_assessment = NoAssessment
    /\ risk_assessment = NoAssessment
    /\ precedents = <<>>
    /\ outcome_stats = NoStats

PredictInit ==
    /\ pcPredict = "start"
    /\ precedent_store \in PrecedentLists
    /\ stored_assessment \in {NoAssessment} \cup [present : {TRUE}, overall_risk_score : RiskScores]
    /\ risk_assessment = NoAssessment
    /\ precedents = <<>>
    /\ outcome_stats = NoStats

\* predict_litigation_outcome lines 66-78: read the latest risk assessment,
\* then the filtered precedents
FindSimilarCases ==
    /\ pcPredict = "start"
    /\ risk_assessment' = stored_assessment
    /\ precedents' = precedent_store
    /\ pcPredict' = "calculate"
    /\ UNCHANGED <<precedent_store, stored_assessment, outcome_stats, otherThanPredict>>

\* line 81
CalculateStep ==
    /\ pcPredict = "calculate"
    /\ outcome_stats' = CalculateOutcomeProbabilities(precedents)
    /\ pcPredict' = "adjust"
    /\ UNCHANGED <<precedent_store, stored_assessment, risk_assessment, precedents, otherThanPredict>>

\* lines 84-88 with a risk assessment: the division by total succeeds
AdjustStep ==
    /\ pcPredict = "adjust"
    /\ risk_assessment.present
    /\ StatsTotal(ShiftedStats(outcome_stats, risk_assessment.overall_risk_score)) # 0
    /\ outcome_stats' \in AdjustForRiskFactors(outcome_stats, risk_assessment.overall_risk_score)
    /\ pcPredict' = "returned"
    /\ UNCHANGED <<precedent_store, stored_assessment, risk_assessment, precedents, otherThanPredict>>

\* lines 159-160 when the shifted values sum to zero (no precedent carries a
\* counted outcome): v / total raises ZeroDivisionError.  For a score above
\* 5.0 the float sum of the three shifts may instead be a nonzero rounding
\* residue, and the call returns meaningless quotients ("garbage").
AdjustZeroTotal ==
    /\ pcPredict = "adjust"
    /\ risk_assessment.present
    /\ StatsTotal(ShiftedStats(outcome_stats, risk_assessment.overall_risk_score)) = 0
    /\ \/ pcPredict' = "raised"
       \/ /\ risk_assessment.overall_risk_score > 50
          /\ pcPredict' = "garbage"
    /\ outcome_stats' = NoStats
    /\ UNCHANGED <<precedent_store, stored_assessment, risk_assessment, precedents, otherThanPredict>>

\* line 84 without a risk assessment
SkipAdjust ==
    /\ pcPredict = "adjust"
    /\ ~risk_assessment.present
    /\ pcPredict' = "returned"
    /\ UNCHANGED <<precedent_store, stored_assessment, risk_assessment, precedents, outcome_stats, otherThanPredict>>

PredictNext ==
    \/ FindSimilarCases
    \/ CalculateStep
    \/ AdjustStep
    \/ AdjustZeroTotal
    \/ SkipAdjust

-----------------------------------------------------------------------------
(* clause_extraction_service.py: static tables                             *)

\* ClauseExtractionService.CLAUSE_PATTERNS, in declaration order
PatternOrder ==
    <<"indemnification",
      "liability_limitation",
      "confidentiality",
      "termination",
      "payment_terms",
      "intellectual_property",
      "dispute_resolution",
      "governing_law",
      "force_majeure",
      "warranty",
      "non_compete",
      "assignment",
      "arbitration",
      "automatic_renewal",
      "change_of_control",
      "data_protection">>

CLAUSE_PATTERNS ==
         ("indemnification" :> [keywords |-> <<"indemnify", "indemnification", "hold harmless", "defend", "indemnitor", "indemnitee", "indemnified party">>,
              risk_keywords |-> <<"any and all", "unlimited", "consequential", "indirect", "sole discretion", "irrespective">>])
       @@ ("liability_limitation" :> [keywords |-> <<"limitation of liability", "liability cap", "limited to", "in no event shall", "maximum liability", "aggregate liability">>,
              risk_keywords |-> <<"no limit", "unlimited liability", "consequential damages", "punitive damages", "indirect damages">>])
       @@ ("confidentiality" :> [keywords |-> <<"confidential", "confidentiality", "non-disclosure", "proprietary", "trade secret", "confidential information", "NDA">>,
              risk_keywords |-> <<"perpetual", "indefinite", "no limitation", "broad definition", "all information">>])
       @@ ("termination" :> [keywords |-> <<"termination", "terminate", "cancellation", "cancel", "termination for cause", "termination for convenience", "notice of termination", "early termination">>,
              risk_keywords |-> <<"without cause", "at any time", "without notice", "sole discretion", "no refund", "immediate termination">>])
       @@ ("payment_terms" :> [keywords |-> <<"payment", "fees", "compensation", "price", "invoice", "payment terms", "due date", "late payment">>,
              risk_keywords |-> <<"non-refundable", "advance payment", "late fees", "interest", "acceleration", "price increase">>])
       @@ ("intellectual_property" :> [keywords |-> <<"intellectual property", "IP", "copyright", "trademark", "patent", "trade secret", "ownership", "license">>,
              risk_keywords |-> <<"assign", "work for hire", "all rights", "perpetual", "exclusive", "irrevocable", "worldwide">>])
       @@ ("dispute_resolution" :> [keywords |-> <<"dispute resolution", "dispute", "mediation", "arbitration", "litigation", "negotiation", "escalation">>,
              risk_keywords |-> <<"binding arbitration", "waive right", "class action waiver", "jury trial waiver", "exclusive jurisdiction">>])
       @@ ("governing_law" :> [keywords |-> <<"governing law", "applicable law", "governed by", "laws of", "jurisdiction", "venue">>,
              risk_keywords |-> <<"foreign jurisdiction", "inconvenient forum", "exclusive venue">>])
       @@ ("force_majeure" :> [keywords |-> <<"force majeure", "act of god", "beyond control", "unforeseeable", "excused performance">>,
              risk_keywords |-> <<"no force majeure", "limited relief", "short notice period">>])
       @@ ("warranty" :> [keywords |-> <<"warranty", "warrant", "guarantee", "representation", "as-is", "merchantability", "fitness for purpose">>,
              risk_keywords |-> <<"no warranty", "as-is", "disclaimer", "limited warranty", "breach of warranty">>])
       @@ ("non_compete" :> [keywords |-> <<"non-compete", "non-competition", "restrictive covenant", "competitive activity", "refrain from competing">>,
              risk_keywords |-> <<"broad scope", "long duration", "worldwide", "any capacity", "indefinite">>])
       @@ ("assignment" :> [keywords |-> <<"assignment", "transfer", "assignee", "successor", "delegate", "subcontract">>,
              risk_keywords |-> <<"freely assign", "without consent", "automatic assignment", "change of control">>])
       @@ ("arbitration" :> [keywords |-> <<"arbitration", "arbitrator", "AAA", "JAMS", "arbitral", "binding arbitration", "arbitration clause">>,
              risk_keywords |-> <<"mandatory arbitration", "waive jury", "individual basis only", "no class action", "expedited arbitration">>])
       @@ ("automatic_renewal" :> [keywords |-> <<"automatic renewal", "auto-renew", "automatically renew", "successive terms", "renewal term">>,
              risk_keywords |-> <<"automatic", "unless notice", "short notice period", "perpetual renewal">>])
       @@ ("change_of_control" :> [keywords |-> <<"change of control", "change in control", "acquisition", "merger", "sale of business">>,
              risk_keywords |-> <<"automatic termination", "immediate payment", "accelerated vesting">>])
       @@ ("data_protection" :> [keywords |-> <<"data protection", "privacy", "GDPR", "personal data", "data processing", "data security", "CCPA">>,
              risk_keywords |-> <<"unlimited use", "no restrictions", "data breach", "third party access">>])

PatternTypes == {PatternOrder[i] : i \in DOMAIN PatternOrder}

\* classify_clause lines 315-329: the confidence of a type with k of its
\* keywords matched, as the fraction <<numerator, denominator>>:
\* k / len(keywords), times 1.5 when k >= 2, capped at 1.0
ClassifyConfidence(clause_type, k) ==
    LET n == Len(CLAUSE_PATTERNS[clause_type].keywords)
        num == IF k >= 2 THEN 3 * k ELSE 2 * k
    IN  <<Min(num, 2 * n), 2 * n>>

\* c.confidence >= min_confidence, both fractions
ConfidenceAtLeast(c, m) == c[1] * m[2] >= m[1] * c[2]

\* extract_clauses: min_confidence default 0.5
DefaultMinConfidence == <<1, 2>>

\* first n elements of a sequence
Prefix(s, n) == SubSeq(s, 1, n)

\* phrase in text (substring of the lower-cased strings), listed for the
\* keyword and risk-keyword phrases of CLAUSE_PATTERNS and the other phrases
\* tested, against the tokens of the texts of the model, the risk keywords
\* and the case names
Substrings ==
    {<<"accelerated vesting", "accelerated vesting">>,
     <<"acceleration", "acceleration">>,
     <<"advance payment", "advance payment">>,
     <<"all information", "all information">>,
     <<"all rights", "all rights">>,
     <<"any and all", "any and all">>,
     <<"any capacity", "any capacity">>,
     <<"arbitration", "binding arbitration">>,
     <<"arbitration", "expedited arbitration">>,
     <<"arbitration", "mandatory arbitration">>,
     <<"as-is", "as-is">>,
     <<"assign", "assign">>,
     <<"assign", "automatic assignment">>,
     <<"assign", "freely assign">>,
     <<"assignment", "automatic assignment">>,
     <<"at any time", "at any time">>,
     <<"automatic", "automatic">>,
     <<"automatic", "automatic assignment">>,
     <<"automatic", "automatic termination">>,
     <<"automatic assignment", "automatic assignment">>,
     <<"automatic termination", "automatic termination">>,
     <<"binding arbitration", "binding arbitration">>,
     <<"breach of warranty", "breach of warranty">>,
     <<"broad definition", "broad definition">>,
     <<"broad scope", "broad scope">>,
     <<"change of control", "change of control">>,
     <<"class action waiver", "class action waiver">>,
     <<"consequential", "consequential">>,
     <<"consequential", "consequential damages">>,
     <<"consequential damages", "consequential damages">>,
     <<"corporate", "corporate">>,
     <<"corporate", "smith v. corporate holdings">>,
     <<"data breach", "data breach">>,
     <<"defend", "defend">>,
     <<"delaware", "delaware">>,
     <<"delaware", "delaware chancery">>,
     <<"delaware chancery", "delaware chancery">>,
     <<"federal", "federal circuit">>,
     <<"federal", "us federal">>,
     <<"federal circuit", "federal circuit">>,
     <<"us federal", "us federal">>,
     <<"disclaimer", "disclaimer">>,
     <<"exclusive", "exclusive">>,
     <<"exclusive", "exclusive jurisdiction">>,
     <<"exclusive", "exclusive venue">>,
     <<"exclusive jurisdiction", "exclusive jurisdiction">>,
     <<"exclusive venue", "exclusive venue">>,
     <<"expedited arbitration", "expedited arbitration">>,
     <<"fees", "late fees">>,
     <<"force majeure", "no force majeure">>,
     <<"foreign jurisdiction", "foreign jurisdiction">>,
     <<"freely assign", "freely assign">>,
     <<"hold harmless", "hold harmless">>,
     <<"immediate payment", "immediate payment">>,
     <<"immediate termination", "immediate termination">>,
     <<"in no event shall", "in no event shall">>,
     <<"inconvenient forum", "inconvenient forum">>,
     <<"indefinite", "indefinite">>,
     <<"indemnify", "indemnify">>,
     <<"indirect", "indirect">>,
     <<"indirect", "indirect damages">>,
     <<"indirect damages", "indirect damages">>,
     <<"individual basis only", "individual basis only">>,
     <<"interest", "interest">>,
     <<"irrespective", "irrespective">>,
     <<"irrevocable", "irrevocable">>,
     <<"jurisdiction", "exclusive jurisdiction">>,
     <<"jurisdiction", "foreign jurisdiction">>,
     <<"jury trial waiver", "jury trial waiver">>,
     <<"late fees", "late fees">>,
     <<"liability cap", "liability cap">>,
     <<"limitation of liability", "limitation of liability">>,
     <<"limited relief", "limited relief">>,
     <<"limited to", "limited to">>,
     <<"limited warranty", "limited warranty">>,
     <<"long duration", "long duration">>,
     <<"mandatory arbitration", "mandatory arbitration">>,
     <<"maximum liability", "maximum liability">>,
     <<"nda", "mandatory arbitration">>,
     <<"nda", "nda">>,
     <<"nda", "non-refundable">>,
     <<"no class action", "no class action">>,
     <<"no force majeure", "no force majeure">>,
     <<"no limit", "no limit">>,
     <<"no limit", "no limitation">>,
     <<"no limitation", "no limitation">>,
     <<"no refund", "no refund">>,
     <<"no restrictions", "no restrictions">>,
     <<"no warranty", "no warranty">>,
     <<"non-refundable", "non-refundable">>,
     <<"payment", "advance payment">>,
     <<"payment", "immediate payment">>,
     <<"perpetual", "perpetual">>,
     <<"perpetual", "perpetual renewal">>,
     <<"perpetual renewal", "perpetual renewal">>,
     <<"price", "price increase">>,
     <<"price increase", "price increase">>,
     <<"punitive damages", "punitive damages">>,
     <<"short notice period", "short notice period">>,
     <<"sole discretion", "sole discretion">>,
     <<"termination", "automatic termination">>,
     <<"termination", "immediate termination">>,
     <<"third party access", "third party access">>,
     <<"unless notice", "unless notice">>,
     <<"unlimited", "unlimited">>,
     <<"unlimited", "unlimited liability">>,
     <<"unlimited", "unlimited use">>,
     <<"unlimited liability", "unlimited liability">>,
     <<"unlimited use", "unlimited use">>,
     <<"venue", "exclusive venue">>,
     <<"waive jury", "waive jury">>,
     <<"waive right", "waive right">>,
     <<"warrant", "breach of warranty">>,
     <<"warrant", "limited warranty">>,
     <<"warrant", "no warranty">>,
     <<"warranty", "breach of warranty">>,
     <<"warranty", "limited warranty">>,
     <<"warranty", "no warranty">>,
     <<"without cause", "without cause">>,
     <<"without consent", "without consent">>,
     <<"without notice", "without notice">>,
     <<"work for hire", "work for hire">>,
     <<"worldwide", "worldwide">>}

\* str.lower() of the strings of the model that are not lower case
Lower(s) ==
    CASE s = "AAA" -> "aaa"
      [] s = "CCPA" -> "ccpa"
      [] s = "Cal." -> "cal."
      [] s = "Corporate" -> "corporate"
      [] s = "Delaware" -> "delaware"
      [] s = "Delaware Chancery" -> "delaware chancery"
      [] s = "Doe v. Roe" -> "doe v. roe"
      [] s = "Federal Circuit" -> "federal circuit"
      [] s = "GDPR" -> "gdpr"
      [] s = "IP" -> "ip"
      [] s = "JAMS" -> "jams"
      [] s = "NDA" -> "nda"
      [] s = "Smith v. Corporate Holdings" -> "smith v. corporate holdings"
      [] s = "US Federal" -> "us federal"
      [] OTHER -> s

Contains(text, phrase) == <<phrase, text>> \in Substrings

-----------------------------------------------------------------------------
(* risk_analysis_service.py: clause scoring                                *)

\* RiskAnalysisService.CLAUSE_RISK_WEIGHTS, in tenths
CLAUSE_RISK_WEIGHTS ==
       ("indemnification" :> 85) @@ ("liability_limitation" :> 70)
    @@ ("arbitration" :> 65) @@ ("non_compete" :> 75)
    @@ ("intellectual_property" :> 80) @@ ("automatic_renewal" :> 60)
    @@ ("change_of_control" :> 70) @@ ("termination" :> 55)
    @@ ("payment_terms" :> 60) @@ ("confidentiality" :> 50)
    @@ ("warranty" :> 55) @@ ("dispute_resolution" :> 45)
    @@ ("data_protection" :> 75) @@ ("assignment" :> 40)
    @@ ("governing_law" :> 35) @@ ("force_majeure" :> 40)
    @@ ("notice" :> 20) @@ ("severability" :> 15)
    @@ ("entire_agreement" :> 15) @@ ("amendment" :> 30)

\* CLAUSE_RISK_WEIGHTS.get(clause_type, 3.0), in tenths
BaseRisk(clause_type) ==
    IF clause_type \in DOMAIN CLAUSE_RISK_WEIGHTS
    THEN CLAUSE_RISK_WEIGHTS[clause_type] ELSE 30

\* mutant: the thresholds taken as strict bounds
MutCalculateRiskLevel(n, d) ==
    IF n > 800 * d THEN "critical"
    ELSE IF n > 600 * d THEN "high"
    ELSE IF n > 400 * d THEN "medium"
    ELSE IF n > 200 * d THEN "low"
    ELSE "minimal"

\* _calculate_risk_level on the score n/d hundredths (d > 0)
CalculateRiskLevel(n, d) ==
    IF n >= 800 * d THEN "critical"
    ELSE IF n >= 600 * d THEN "high"
    ELSE IF n >= 400 * d THEN "medium"
    ELSE IF n >= 200 * d THEN "low"
    ELSE "minimal"

\* mutant: the cap at 10.0 left out
MutTotalRisk(c) == BaseRisk(c.clause_type) + 5 * Len(c.risk_indicators)

\* _analyze_clause_risk lines 167-174: total_risk in tenths
TotalRisk(c) == Min(BaseRisk(c.clause_type) + 5 * Len(c.risk_indicators), 100)

\* _analyze_clause_risk.  confidence_adjusted_risk is the fraction
\* TotalRisk * 10 * num / den hundredths; the level is taken from it, the
\* reported risk_score is round(confidence_adjusted_risk, 2).  The text and
\* section fields are copied through and are left out here.
AnalyzeClauseRisk(c) ==
    LET n == TotalRisk(c) * 10 * c.confidence[1]
        d == c.confidence[2]
    IN  [clause_type          |-> c.clause_type,
         risk_score           |-> RoundHalfEven(n, d),
         risk_level           |-> CalculateRiskLevel(n, d),
         base_risk            |-> BaseRisk(c.clause_type),
         risk_indicators      |-> c.risk_indicators,
         risk_indicator_count |-> Len(c.risk_indicators),
         confidence           |-> RoundHalfEven(100 * c.confidence[1], c.confidence[2]),
         keywords_matched     |-> c.keywords_matched]

\* An ExtractedClause as _extract_clauses_from_section builds it for a
\* paragraph classified as clause_type with k keywords matched and the first
\* n risk keywords of the type found
MakeClause(clause_type, k, n) ==
    [clause_type      |-> clause_type,
     confidence       |-> ClassifyConfidence(clause_type, k),
     keywords_matched |-> Prefix(CLAUSE_PATTERNS[clause_type].keywords, k),
     risk_indicators  |-> Prefix(CLAUSE_PATTERNS[clause_type].risk_keywords, n)]

\* Every clause extract_clauses(text) can hand to _analyze_clause_risk:
\* any pattern type, any number of matched keywords and risk keywords,
\* confidence at least the default threshold
ClausesOfType(t) ==
    {MakeClause(t, k, n) : k \in 1..Len(CLAUSE_PATTERNS[t].keywords),
                           n \in 0..Len(CLAUSE_PATTERNS[t].risk_keywords)}

ExtractableClauses ==
    {c \in UNION {ClausesOfType(t) : t \in PatternTypes} :
        ConfidenceAtLeast(c.confidence, DefaultMinConfidence)}

NoAnalysis == [clause_type |-> NoneVal]

\* the variables of this part when another part of the service is run
ClauseIdle ==
    /\ pcClause = "idle"
    /\ clause = [clause_type |-> NoneVal]
    /\ analysis = NoAnalysis

ClauseInit ==
    /\ pcClause = "start"
    /\ clause \in ExtractableClauses
    /\ analysis = NoAnalysis

\* analyze_document_risk line 96
AnalyzeClause ==
    /\ pcClause = "start"
    /\ analysis' = AnalyzeClauseRisk(clause)
    /\ pcClause' = "returned"
    /\ UNCHANGED <<clause, otherThanClause>>

ClauseNext == AnalyzeClause


-----------------------------------------------------------------------------
(* risk_analysis_service.py: analyze_document_risk                         *)

MaxClauses == 2
MaxCases == 2

\* Optional values: None is the empty sequence, a value x is <<x>>
None == <<>>
Some(x) == <<x>>

\* document.practice_area of an object that has no such attribute: the
\* Document class of models/document.py declares neither practice_area nor
\* jurisdiction nor the risk fields; reading one raises AttributeError
AttributeMissing == "AttributeError"

\* The document objects passed in: the declared Document class, and objects
\* carrying the attributes the services read (practice_area unset or set).
Documents ==
    {[id |-> 1, practice_area |-> a, jurisdiction |-> "Delaware",
      risk_score |-> None, risk_level |-> NoneVal,
      has_high_risk_clauses |-> FALSE, risk_analysis_complete |-> FALSE] :
        a \in {AttributeMissing, NoneVal, "Corporate"}}

\* truthiness of an attribute value
Truthy(v) == v # NoneVal /\ v # ""

\* Clause types of the sample documents: the types the recommendation rules
\* name, one type scoring minimal, and types with and without a member in
\* the ClauseType enumeration of models/contract_clause.py
SampleClauseTypes ==
    {"indemnification", "liability_limitation", "non_compete",
     "automatic_renewal", "data_protection", "governing_law"}

\* the smallest number of matched keywords that passes the default threshold
LeastMatches(t) ==
    CHOOSE k \in 1..Len(CLAUSE_PATTERNS[t].keywords) :
        /\ ConfidenceAtLeast(ClassifyConfidence(t, k), DefaultMinConfidence)
        /\ \A j \in 1..(k - 1) :
              ~ConfidenceAtLeast(ClassifyConfidence(t, j), DefaultMinConfidence)

\* the types whose recommendation rule looks at the risk level or at the
\* risk indicators of the clause
IndicatorRuleTypes == {"indemnification", "liability_limitation", "non_compete"}

\* Sample of the clauses extraction yields: per type, the weakest and the
\* strongest classification; for the types of IndicatorRuleTypes without
\* and with the first risk keyword of the type, for the others without
SampleClausesOfType(t) ==
    {MakeClause(t, k, n) :
        k \in {LeastMatches(t), Len(CLAUSE_PATTERNS[t].keywords)},
        n \in (IF t \in IndicatorRuleTypes THEN {0, 1} ELSE {0})}

\* two clauses whose rounded scores 2.89 and 5.1 average to 3.995, half a
\* hundredth below the threshold of level medium
ThresholdClauses ==
    {MakeClause("dispute_resolution", 3, 0), MakeClause("non_compete", 2, 2)}

SampleClauses ==
    UNION {SampleClausesOfType(t) : t \in SampleClauseTypes}
    \cup ThresholdClauses

\* the clause lists extract_clauses(document_text) yields
ClauseLists == UNION {[1..n -> SampleClauses] : n \in 0..MaxClauses}

\* x in [CRITICAL, HIGH]
IsHighRisk(a) == a.risk_level \in {"critical", "high"}

RECURSIVE SelectHigh(_)
\* lines 100-101: the analyses at level critical or high, in order
SelectHigh(analyses) ==
    IF analyses = <<>> THEN <<>>
    ELSE LET rest == SelectHigh(Tail(analyses))
         IN  IF IsHighRisk(Head(analyses)) THEN <<Head(analyses)>> \o rest ELSE rest

\* lines 103-113: average_risk as the fraction <<n, d>> of hundredths:
\* total_risk_score / len(clauses), plus min(0.5 * #high, 3.0) capped at 10.0
\* when there is a high-risk clause
AverageRisk(analyses, high) ==
    LET n == Len(analyses)
        total == SumSeq([i \in 1..n |-> analyses[i].risk_score])
    IN  IF n = 0 THEN <<0, 1>>
        ELSE IF high = <<>> THEN <<total, n>>
        ELSE <<Min(total + Min(50 * Len(high), 300) * n, 1000 * n), n>>

-----------------------------------------------------------------------------
(* _generate_recommendations                                               *)

\* phrase in str(c.get("risk_indicators", [])).lower(): the phrase lies in
\* the printed list exactly when it lies in one of its elements
InIndicators(phrase, a) ==
    \E i \in DOMAIN a.risk_indicators : Contains(Lower(a.risk_indicators[i]), phrase)

TypesPresent(cls) == {cls[i].clause_type : i \in DOMAIN cls}

AnalysesOfType(analyses, t) == {analyses[i] : i \in {j \in DOMAIN analyses : analyses[j].clause_type = t}}

GeneralHighRec(n) ==
    [priority |-> "high", category |-> "general",
     recommendation |-> "Document contains " \o ToString(n) \o " high-risk clause(s). Attorney review strongly recommended before execution."]
IndemnificationRec ==
    [priority |-> "critical", category |-> "indemnification",
     recommendation |-> "Indemnification clause requires careful review."]
LiabilityRec ==
    [priority |-> "high", category |-> "liability",
     recommendation |-> "Liability limitation clause may be insufficient."]
RenewalRec ==
    [priority |-> "medium", category |-> "termination",
     recommendation |-> "Automatic renewal clause detected."]
NonCompeteRec ==
    [priority |-> "high", category |-> "restrictions",
     recommendation |-> "Non-compete clause appears overly broad."]
DataProtectionRec ==
    [priority |-> "medium", category |-> "compliance",
     recommendation |-> "Ensure data protection obligations comply with GDPR, CCPA."]
StandardReviewRec ==
    [priority |-> "low", category |-> "general",
     recommendation |-> "Standard contract review recommended. No critical risk factors identified."]

\* lines 287-337: the recommendations of the rules that fire, in order
RuleRecommendations(cls, analyses, high) ==
    LET present == TypesPresent(cls)
    IN  (IF high # <<>> THEN <<GeneralHighRec(Len(high))>> ELSE <<>>)
     \o (IF /\ "indemnification" \in present
            /\ \E a \in AnalysesOfType(analyses, "indemnification") : IsHighRisk(a)
         THEN <<IndemnificationRec>> ELSE <<>>)
     \o (IF /\ "liability_limitation" \in present
            /\ \E a \in AnalysesOfType(analyses, "liability_limitation") :
                  InIndicators("no limit", a)
         THEN <<LiabilityRec>> ELSE <<>>)
     \o (IF "automatic_renewal" \in present THEN <<RenewalRec>> ELSE <<>>)
     \o (IF /\ "non_compete" \in present
            /\ \E a \in AnalysesOfType(analyses, "non_compete") :
                  InIndicators("broad scope", a)
         THEN <<NonCompeteRec>> ELSE <<>>)
     \o (IF "data_protection" \in present THEN <<DataProtectionRec>> ELSE <<>>)

\* mutant: the fallback recommendation left out
MutGenerateRecommendations(cls, analyses, high) ==
    RuleRecommendations(cls, analyses, high)

\* mutant: the standard review added whatever the rules did
MutAlwaysStandardReview(cls, analyses, high) ==
    Append(RuleRecommendations(cls, analyses, high), StandardReviewRec)

\* _generate_recommendations: lines 339-345 add the standard review when no
\* rule fired
GenerateRecommendations(cls, analyses, high) ==
    LET recs == RuleRecommendations(cls, analyses, high)
    IN  IF recs = <<>> THEN <<StandardReviewRec>> ELSE recs

-----------------------------------------------------------------------------
(* _find_relevant_precedents and case_library_service.analyze_case_relevance *)

\* CaseSearchResult objects the search may return (core/external_apis.py);
\* age_days is (now - decision_date).days, relevance_score the API's score
SampleCases ==
    {[case_name |-> "Smith v. Corporate Holdings", citation |-> "123 A.3d 456",
      court |-> "Del. Ch.", jurisdiction |-> "Delaware", age_days |-> 700,
      relevance_score |-> 50],
     [case_name |-> "Doe v. Roe", citation |-> "9 F.2d 1",
      court |-> "2d Cir.", jurisdiction |-> NoneVal, age_days |-> 3000,
      relevance_score |-> 0]}

CaseLists == UNION {[1..n -> SampleCases] : n \in 0..MaxCases}

\* CaseLibraryService._jurisdictions_match
JurisdictionsMatch(jurisdiction1, jurisdiction2) ==
    LET j1 == Lower(jurisdiction1)
        j2 == Lower(jurisdiction2)
    IN  \/ j1 = j2
        \/ Contains(j1, "federal") /\ Contains(j2, "federal")
        \/ Contains(j2, j1) \/ Contains(j1, j2)

\* analyze_case_relevance without user_context: relevance_score in
\* hundredths on the 0-10 scale and the factors that contributed
AnalyzeCaseRelevance(case, doc) ==
    LET area == /\ Truthy(doc.practice_area) /\ Truthy(case.jurisdiction)
                /\ Contains(Lower(case.case_name), Lower(doc.practice_area))
        juris == /\ Truthy(doc.jurisdiction) /\ Truthy(case.jurisdiction)
                 /\ JurisdictionsMatch(doc.jurisdiction, case.jurisdiction)
        recent == case.age_days < 5 * 365
        moderate == ~recent /\ case.age_days < 10 * 365
        api == case.relevance_score > 0
        score == (IF area THEN 250 ELSE 0) + (IF juris THEN 200 ELSE 0)
               + (IF recent THEN 150 ELSE IF moderate THEN 100 ELSE 0)
               + (IF api THEN Min(10 * case.relevance_score, 300) ELSE 0)
    IN  [relevance_score |-> Min(score, 1000),
         relevance_factors |->
               (IF area THEN <<"Practice area match">> ELSE <<>>)
            \o (IF juris THEN <<"Jurisdiction match">> ELSE <<>>)
            \o (IF recent THEN <<"Recent decision">>
                ELSE IF moderate THEN <<"Moderately recent">> ELSE <<>>)
            \o (IF api THEN <<"Search relevance">> ELSE <<>>)]

\* lines 252-258: the precedent entry of one case
PrecedentEntry(case, doc) ==
    LET relevance == AnalyzeCaseRelevance(case, doc)
    IN  [case_name |-> case.case_name, citation |-> case.citation,
         court |-> case.court,
         relevance_score |-> relevance.relevance_score,
         relevance_factors |-> relevance.relevance_factors]

RECURSIVE InsertByRelevance(_, _)
\* insert x behind every element whose score is not smaller (stable order)
InsertByRelevance(x, sorted) ==
    IF sorted = <<>> THEN <<x>>
    ELSE IF Head(sorted).relevance_score >= x.relevance_score
         THEN <<Head(sorted)>> \o InsertByRelevance(x, Tail(sorted))
         ELSE <<x>> \o sorted

RECURSIVE SortByRelevance(_)
\* line 261: precedents.sort(key=relevance_score, reverse=True), stable
SortByRelevance(s) ==
    IF s = <<>> THEN <<>>
    ELSE LET front == SubSeq(s, 1, Len(s) - 1)
         IN  InsertByRelevance(s[Len(s)], SortByRelevance(front))

\* mutant: the exception of the lookup is not caught
MutPrecedentsOnException == [pc |-> "raised", precedents |-> <<>>]

\* lines 264-266: except Exception: log and return []
PrecedentsOnException == [pc |-> "recommend", precedents |-> <<>>]

-----------------------------------------------------------------------------
(* _save_risk_assessment                                                   *)

\* values of the ClauseType enumeration of models/contract_clause.py
ModelClauseType ==
    {"termination", "non_compete", "confidentiality", "indemnification",
     "liability_limitation", "intellectual_property", "dispute_resolution",
     "force_majeure", "payment_terms", "renewal", "assignment",
     "governing_law", "severability", "entire_agreement", "amendment",
     "notice", "warranty", "representations", "covenant", "other"}

\* ContractClauseCreate(...) validates: clause_type must be a member of the
\* model's ClauseType; the keyword arguments the schema does not declare
\* (risk_score, risk_level, section_title, confidence_score, risk_factors,
\* keywords_matched) are ignored
ContractClauseCreateAccepts(c) == c.clause_type \in ModelClauseType

\* ContractClause.model_validate(clause_data): the row takes the schema's
\* fields; risk_score and risk_level keep the table's defaults 0.0 and LOW
ContractClauseRow(doc, c) ==
    [table |-> "contract_clauses", document_id |-> doc.id,
     clause_type |-> c.clause_type, risk_score |-> 0, risk_level |-> "low"]

\* mutant: the low bucket counts level low only
MutRiskLevelHistogram(analyses) ==
    [high   |-> Cardinality({i \in DOMAIN analyses : analyses[i].risk_level \in {"critical", "high"}}),
     medium |-> Cardinality({i \in DOMAIN analyses : analyses[i].risk_level = "medium"}),
     low    |-> Cardinality({i \in DOMAIN analyses : analyses[i].risk_level = "low"})]

\* lines 401-403: the three clause counts by risk level
RiskLevelHistogram(analyses) ==
    [high   |-> Cardinality({i \in DOMAIN analyses : analyses[i].risk_level \in {"critical", "high"}}),
     medium |-> Cardinality({i \in DOMAIN analyses : analyses[i].risk_level = "medium"}),
     low    |-> Cardinality({i \in DOMAIN analyses : analyses[i].risk_level \in {"low", "minimal"}})]

IsCriticalRec(r) == r.priority = "critical"

RECURSIVE SumConfidence(_)
\* sum(c.confidence for c in clauses) as a fraction
SumConfidence(cls) ==
    IF cls = <<>> THEN <<0, 1>>
    ELSE LET rest == SumConfidence(Tail(cls))
             c == Head(cls).confidence
         IN  <<c[1] * rest[2] + rest[1] * c[2], c[2] * rest[2]>>

\* line 406: the mean confidence, 0.0 without clauses
AverageConfidence(cls) ==
    IF cls = <<>> THEN <<0, 1>>
    ELSE LET total == SumConfidence(cls) IN <<total[1], total[2] * Len(cls)>>

\* mutant: the level is passed under the name the schema declares
MutAssessmentKwargs(doc, risk_score, risk_level, cls, analyses, recs) ==
    [document_id |-> doc.id,
     overall_risk_score |-> risk_score,
     overall_risk_level |-> risk_level,
     confidence_score |-> AverageConfidence(cls)]

\* lines 397-407: the keyword arguments passed to RiskAssessmentCreate,
\* under the names the call uses
AssessmentKwargs(doc, risk_score, risk_level, cls, analyses, recs) ==
    LET h == RiskLevelHistogram(analyses)
    IN  [document_id |-> doc.id,
         overall_risk_score |-> risk_score,
         risk_level |-> risk_level,
         high_risk_clause_count |-> h.high,
         medium_risk_clause_count |-> h.medium,
         low_risk_clause_count |-> h.low,
         critical_issues |-> SelectSeq(recs, IsCriticalRec),
         recommendations |-> recs,
         confidence_score |-> AverageConfidence(cls)]

\* RiskAssessmentCreate(**kwargs) validates: RiskAssessmentBase requires
\* document_id, overall_risk_score, overall_risk_level and confidence_score
RiskAssessmentCreateAccepts(kwargs) ==
    {"document_id", "overall_risk_score", "overall_risk_level",
     "confidence_score"} \subseteq DOMAIN kwargs

\* the points at which the session may fail: none, session.add of the
\* at-th row, the first or second commit, refresh
SessionFaults(cls) ==
    {[op |-> "none", at |-> 0]}
    \cup {[op |-> "add", at |-> i] : i \in 1..(Len(cls) + 2)}
    \cup {[op |-> "commit", at |-> i] : i \in {1, 2}}
    \cup {[op |-> "refresh", at |-> 0]}

\* mutant: no except clause, the failure leaves the function
MutSaveOnException(step) == [assessment |-> None, error |-> step, raised |-> TRUE]

\* lines 429-432: except Exception: log, session.rollback(), return None
SaveOnException(step) == [assessment |-> None, error |-> step, raised |-> FALSE]

\* _save_risk_assessment with the session failing at `fault`: what it
\* returns (ret), the rows it leaves pending in the session and committed
\* to the database, the rows it passed to session.add (added), and the
\* document object afterwards.  A rollback
\* discards the rows added and not committed.
SaveRiskAssessment(doc, risk_score, risk_level, cls, analyses, recs, fault) ==
    LET n == Len(cls)
        bad == {i \in 1..n : \/ ~ContractClauseCreateAccepts(cls[i])
                             \/ fault = [op |-> "add", at |-> i]}
        first == CHOOSE i \in bad : \A j \in bad : i <= j
        rows == [i \in 1..n |-> ContractClauseRow(doc, cls[i])]
        kwargs == AssessmentKwargs(doc, risk_score, risk_level, cls, analyses, recs)
        assessment == [table |-> "risk_assessments", id |-> 1,
                       document_id |-> kwargs.document_id,
                       overall_risk_score |-> kwargs.overall_risk_score,
                       overall_risk_level |-> kwargs.overall_risk_level]
        updated == [doc EXCEPT !.risk_score = Some(risk_score),
                               !.risk_level = risk_level,
                               !.has_high_risk_clauses =
                                   \E i \in DOMAIN analyses : IsHighRisk(analyses[i]),
                               !.risk_analysis_complete = TRUE]
        failed(step, committed, added) ==
            [ret |-> SaveOnException(step), session_new |-> <<>>,
             db_rows |-> committed, document |-> doc, added |-> added]
    IN  IF bad # {}
        THEN failed(IF ContractClauseCreateAccepts(cls[first])
                    THEN "session.add" ELSE "ContractClauseCreate", <<>>,
                    SubSeq(rows, 1, first - 1))
        ELSE IF ~RiskAssessmentCreateAccepts(kwargs)
             THEN failed("RiskAssessmentCreate", <<>>, rows)
        ELSE IF fault = [op |-> "add", at |-> n + 1]
             THEN failed("session.add", <<>>, rows)
        ELSE IF fault = [op |-> "commit", at |-> 1]
             THEN failed("session.commit", <<>>, Append(rows, assessment))
        ELSE IF fault = [op |-> "refresh", at |-> 0]
             THEN failed("session.refresh", Append(rows, assessment),
                         Append(rows, assessment))
        ELSE IF fault = [op |-> "add", at |-> n + 2]
             THEN failed("session.add", Append(rows, assessment),
                         Append(rows, assessment))
        ELSE IF fault = [op |-> "commit", at |-> 2]
             THEN failed("session.commit", Append(rows, assessment),
                         Append(rows, assessment))
        ELSE [ret |-> [assessment |-> Some(assessment), error |-> "", raised |-> FALSE],
              session_new |-> <<>>, db_rows |-> Append(rows, assessment),
              document |-> updated, added |-> Append(rows, assessment)]

-----------------------------------------------------------------------------
(* analyze_document_risk: the call                                         *)

NoResult == [returned |-> FALSE]

RiskIdle ==
    /\ pcRisk = "idle"
    /\ document = [id |-> 0]
    /\ include_precedents = FALSE
    /\ document_clauses = <<>>
    /\ clauses = <<>>
    /\ clause_analyses = <<>>
    /\ high_risk_clauses = <<>>
    /\ average_risk = <<0, 1>>
    /\ overall_risk_level = NoneVal
    /\ cases = <<>>
    /\ risk_precedents = <<>>
    /\ precedent_error = ""
    /\ recommendations = <<>>
    /\ session_new = <<>>
    /\ session_added = <<>>
    /\ db_rows = <<>>
    /\ save_error = ""
    /\ result = NoResult

RiskInit ==
    /\ pcRisk = "start"
    /\ document \in Documents
    /\ include_precedents \in BOOLEAN
    /\ document_clauses \in ClauseLists
    /\ clauses = <<>>
    /\ clause_analyses = <<>>
    /\ high_risk_clauses = <<>>
    /\ average_risk = <<0, 1>>
    /\ overall_risk_level = NoneVal
    /\ cases = <<>>
    /\ risk_precedents = <<>>
    /\ precedent_error = ""
    /\ recommendations = <<>>
    /\ session_new = <<>>
    /\ session_added = <<>>
    /\ db_rows = <<>>
    /\ save_error = ""
    /\ result = NoResult

\* lines 85-123 up to the first await: extract, analyse every clause,
\* average, boost, level; then decide whether precedents are looked up.
\* Reading document.practice_area raises when the object has none (line
\* 119); _find_relevant_precedents returns [] without high-risk clauses.
AnalyzeClauses ==
    /\ pcRisk = "start"
    /\ LET analyses == [i \in DOMAIN document_clauses |->
                            AnalyzeClauseRisk(document_clauses[i])]
           high == SelectHigh(analyses)
           avg == AverageRisk(analyses, high)
       IN  /\ clauses' = document_clauses
           /\ clause_analyses' = analyses
           /\ high_risk_clauses' = high
           /\ average_risk' = avg
           /\ overall_risk_level' = CalculateRiskLevel(avg[1], avg[2])
           /\ pcRisk' = IF ~include_precedents THEN "recommend"
                        ELSE IF document.practice_area = AttributeMissing THEN "raised"
                        ELSE IF ~Truthy(document.practice_area) THEN "recommend"
                        ELSE IF high = <<>> THEN "recommend"
                        ELSE "search"
    /\ UNCHANGED <<document, include_precedents, document_clauses, cases,
                   risk_precedents, precedent_error, recommendations,
                   session_new, session_added, db_rows, save_error, result, otherThanRisk>>

\* lines 238-243: search_cases returns
SearchCases ==
    /\ pcRisk = "search"
    /\ cases' \in CaseLists
    /\ pcRisk' = "relevance"
    /\ UNCHANGED <<document, include_precedents, document_clauses, clauses,
                   clause_analyses, high_risk_clauses, average_risk,
                   overall_risk_level, risk_precedents, precedent_error,
                   recommendations, session_new, session_added, db_rows, save_error, result,
                   otherThanRisk>>

\* lines 238-243: search_cases raises
SearchCasesRaises ==
    /\ pcRisk = "search"
    /\ precedent_error' = "search_cases"
    /\ pcRisk' = PrecedentsOnException.pc
    /\ risk_precedents' = PrecedentsOnException.precedents
    /\ UNCHANGED <<document, include_precedents, document_clauses, clauses,
                   clause_analyses, high_risk_clauses, average_risk,
                   overall_risk_level, cases, recommendations, session_new, session_added,
                   db_rows, save_error, result, otherThanRisk>>

\* lines 245-262: every case analysed, the entries sorted by relevance
AnalyzeRelevance ==
    /\ pcRisk = "relevance"
    /\ risk_precedents' =
          SortByRelevance([i \in DOMAIN cases |-> PrecedentEntry(cases[i], document)])
    /\ pcRisk' = "recommend"
    /\ UNCHANGED <<document, include_precedents, document_clauses, clauses,
                   clause_analyses, high_risk_clauses, average_risk,
                   overall_risk_level, cases, precedent_error, recommendations,
                   session_new, session_added, db_rows, save_error, result, otherThanRisk>>

\* lines 246-251: analyze_case_relevance raises on one of the cases; the
\* entries built so far are dropped with the frame
AnalyzeRelevanceRaises ==
    /\ pcRisk = "relevance"
    /\ cases # <<>>
    /\ precedent_error' = "analyze_case_relevance"
    /\ pcRisk' = PrecedentsOnException.pc
    /\ risk_precedents' = PrecedentsOnException.precedents
    /\ UNCHANGED <<document, include_precedents, document_clauses, clauses,
                   clause_analyses, high_risk_clauses, average_risk,
                   overall_risk_level, cases, recommendations, session_new, session_added,
                   db_rows, save_error, result, otherThanRisk>>

\* lines 125-130
Recommend ==
    /\ pcRisk = "recommend"
    /\ recommendations' = GenerateRecommendations(clauses, clause_analyses, high_risk_clauses)
    /\ pcRisk' = "save"
    /\ UNCHANGED <<document, include_precedents, document_clauses, clauses,
                   clause_analyses, high_risk_clauses, average_risk,
                   overall_risk_level, cases, risk_precedents, precedent_error,
                   session_new, session_added, db_rows, save_error, result, otherThanRisk>>

\* lines 142-154: the dictionary returned; round(average_risk, 2) of a
\* value halfway between two hundredths may come out either way
ResultDicts(assessment) ==
    {[returned |-> TRUE,
      document_id |-> document.id,
      overall_risk_score |-> score,
      overall_risk_level |-> overall_risk_level,
      total_clauses_analyzed |-> Len(clauses),
      high_risk_clause_count |-> Len(high_risk_clauses),
      clauses |-> clause_analyses,
      high_risk_clauses |-> high_risk_clauses,
      precedents |-> Prefix(risk_precedents, Min(5, Len(risk_precedents))),
      recommendations |-> recommendations,
      risk_assessment_id |-> IF assessment = None THEN None
                             ELSE Some(assessment[1].id)] :
        score \in RoundChoices(average_risk[1], average_risk[2])}

\* lines 132-154: _save_risk_assessment, then the return
SaveAndReturn ==
    /\ pcRisk = "save"
    /\ \E fault \in SessionFaults(clauses) :
          LET saved == SaveRiskAssessment(document, average_risk,
                            overall_risk_level, clauses, clause_analyses,
                            recommendations, fault)
          IN  /\ save_error' = saved.ret.error
              /\ session_new' = saved.session_new
              /\ session_added' = saved.added
              /\ db_rows' = db_rows \o saved.db_rows
              /\ document' = saved.document
              /\ IF saved.ret.raised
                 THEN /\ pcRisk' = "raised"
                      /\ UNCHANGED result
                 ELSE /\ pcRisk' = "returned"
                      /\ result' \in ResultDicts(saved.ret.assessment)
    /\ UNCHANGED <<include_precedents, document_clauses, clauses,
                   clause_analyses, high_risk_clauses, average_risk,
                   overall_risk_level, cases, risk_precedents, precedent_error,
                   recommendations, otherThanRisk>>

RiskNext ==
    \/ AnalyzeClauses
    \/ SearchCases
    \/ SearchCasesRaises
    \/ AnalyzeRelevance
    \/ AnalyzeRelevanceRaises
    \/ Recommend
    \/ SaveAndReturn

-----------------------------------------------------------------------------
(* clause_extraction_service.py: extract_clauses and classify_clause       *)
(*                                                                         *)
(* Text.  A clause text is a sequence of tokens (keyword phrases and       *)
(* filler) joined by single spaces.  A document text is a sequence of      *)
(* blocks: a header block is the line  <number><delim> <title>\n , a       *)
(* paragraph block is its tokens followed by a blank line (\n\n).  The     *)
(* tokens start with a letter and the headings are numbered with "." or    *)
(* ")", so section_pattern matches the header blocks and nothing else.     *)
(* Lengths and offsets count characters of that text.                      *)

MaxCalls == 2

Header(number, delim, title) ==
    [kind |-> "header", number |-> number, delim |-> delim, title |-> title,
     tokens |-> <<>>]

Para(tokens) ==
    [kind |-> "para", number |-> "", delim |-> "", title |-> "", tokens |-> tokens]

\* len(" ".join(tokens))
JoinLen(tokens) ==
    IF tokens = <<>> THEN 0
    ELSE SumSeq([i \in DOMAIN tokens |-> Len(tokens[i])]) + Len(tokens) - 1

\* number of characters of a block
BlockLen(b) ==
    IF b.kind = "header"
    THEN Len(b.number) + Len(b.delim) + 1 + Len(b.title) + 1
    ELSE JoinLen(b.tokens) + 2

\* len(document_text)
TextLen(text) == SumSeq([i \in DOMAIN text |-> BlockLen(text[i])])

\* offset of the first character of block i
BlockStart(text, i) == TextLen(SubSeq(text, 1, i - 1))

\* self.section_pattern as __init__ compiles it (lines 248-251): a line
\* holding a dotted number, one of the delimiters, and a title
SectionPattern == [number |-> "\\d+(?:\\.\\d+)*", delims |-> {".", ")"}]

\* keyword.lower() in clause_lower, for a clause text given by its tokens
InText(phrase, tokens) ==
    \E i \in DOMAIN tokens : Contains(Lower(tokens[i]), Lower(phrase))

\* lines 310-313 and 352-354: the phrases of a list found in the text, in
\* list order
Matched(phrases, tokens) ==
    LET Found(p) == InText(p, tokens) IN SelectSeq(phrases, Found)

\* mutant: the boost for two or more matches left out
MutNormalizedScore(k, n) == <<2 * k, 2 * n>>

\* lines 317-321: score / len(keywords), times 1.5 from two matches on, as
\* a fraction
NormalizedScore(k, n) == <<IF k >= 2 THEN 3 * k ELSE 2 * k, 2 * n>>

FractionGreater(a, b) == a[1] * b[2] > b[1] * a[2]

RECURSIVE ClassifyFrom(_, _, _, _)
\* lines 305-326: the loop over CLAUSE_PATTERNS.items() from the i-th type
\* on; a later type replaces the best only with a strictly greater score
ClassifyFrom(i, tokens, patterns, best) ==
    IF i > Len(PatternOrder) THEN best
    ELSE LET clause_type == PatternOrder[i]
             keywords == patterns[clause_type].keywords
             matched_keywords == Matched(keywords, tokens)
             normalized_score == NormalizedScore(Len(matched_keywords), Len(keywords))
         IN  ClassifyFrom(i + 1, tokens, patterns,
                 IF keywords # <<>> /\ FractionGreater(normalized_score, best.score)
                 THEN [type |-> clause_type, score |-> normalized_score,
                       keywords |-> matched_keywords]
                 ELSE best)

\* classify_clause: (best_type, min(best_score, 1.0), best_keywords)
ClassifyClause(tokens, patterns) ==
    LET best == ClassifyFrom(1, tokens, patterns,
                    [type |-> "unknown", score |-> <<0, 1>>, keywords |-> <<>>])
    IN  [clause_type |-> best.type,
         confidence |-> <<Min(best.score[1], best.score[2]), best.score[2]>>,
         keywords_matched |-> best.keywords]

\* identify_risk_indicators
IdentifyRiskIndicators(tokens, clause_type, patterns) ==
    IF clause_type \in DOMAIN patterns
    THEN Matched(patterns[clause_type].risk_keywords, tokens)
    ELSE <<>>

\* indices of the blocks section_pattern matches, in text order
HeaderIndices(text, pattern) ==
    LET IsHeader(i) == text[i].kind = "header" /\ text[i].delim \in pattern.delims
    IN  SelectSeq([i \in DOMAIN text |-> i], IsHeader)

\* the paragraphs of text[from..to]: _split_into_paragraphs of the slice
ParagraphsBetween(text, from, to) ==
    LET IsPara(b) == b.kind = "para" /\ b.tokens # <<>>
        blocks == SelectSeq(SubSeq(text, from, to), IsPara)
    IN  [i \in DOMAIN blocks |-> blocks[i].tokens]

\* _identify_sections.  A match ends behind the newline of its header line
\* and begins at the first newline that ends the paragraph before it (at
\* the header itself when a header line precedes it); the section runs
\* from the end of its match to the start of the next, or to the end of
\* the text.  Without a match the whole text is one section.
IdentifySections(text, pattern) ==
    LET heads == HeaderIndices(text, pattern)
        MatchStart(h) == BlockStart(text, h)
                         - (IF h > 1 /\ text[h - 1].kind = "para" THEN 2 ELSE 0)
        MatchEnd(h) == BlockStart(text, h) + BlockLen(text[h])
    IN  IF heads = <<>>
        THEN <<[number |-> NoneVal, title |-> NoneVal,
                paragraphs |-> ParagraphsBetween(text, 1, Len(text)),
                start |-> 0, end |-> TextLen(text)]>>
        ELSE [j \in DOMAIN heads |->
                LET h == heads[j]
                    last == j = Len(heads)
                IN  [number |-> text[h].number, title |-> text[h].title,
                     paragraphs |-> ParagraphsBetween(text, h + 1,
                                        IF last THEN Len(text) ELSE heads[j + 1] - 1),
                     start |-> MatchEnd(h),
                     end |-> IF last THEN TextLen(text) ELSE MatchStart(heads[j + 1])]]

RECURSIVE ClausesFrom(_, _, _, _)
\* lines 430-456: the loop over the paragraphs with current_pos
ClausesFrom(paragraphs, current_pos, section, patterns) ==
    IF paragraphs = <<>> THEN <<>>
    ELSE LET paragraph == Head(paragraphs)
             length == JoinLen(paragraph)
             rest == ClausesFrom(Tail(paragraphs), current_pos + length, section, patterns)
             classified == ClassifyClause(paragraph, patterns)
         IN  IF length < 50 THEN rest
             ELSE IF classified.clause_type = "unknown" THEN rest
             ELSE <<[clause_type |-> classified.clause_type,
                     clause_text |-> paragraph,
                     start_position |-> current_pos,
                     end_position |-> current_pos + length,
                     section_number |-> section.number,
                     section_title |-> section.title,
                     confidence |-> classified.confidence,
                     keywords_matched |-> classified.keywords_matched,
                     risk_indicators |-> IdentifyRiskIndicators(paragraph,
                                             classified.clause_type, patterns)]>>
                  \o rest

\* _extract_clauses_from_section
ExtractClausesFromSection(section, patterns) ==
    ClausesFrom(section.paragraphs, section.start, section, patterns)

\* mutant: nothing is filtered out
MutFilterByConfidence(cls, min_confidence) == cls

\* line 285: the clauses with confidence >= min_confidence
FilterByConfidence(cls, min_confidence) ==
    LET Passes(c) == ConfidenceAtLeast(c.confidence, min_confidence)
    IN  SelectSeq(cls, Passes)

RECURSIVE ClausesOfSections(_, _)
ClausesOfSections(sections, patterns) ==
    IF sections = <<>> THEN <<>>
    ELSE ExtractClausesFromSection(Head(sections), patterns)
         \o ClausesOfSections(Tail(sections), patterns)

\* extract_clauses run on its own
ExtractClauses(document_text, min_confidence, pattern, patterns) ==
    FilterByConfidence(
        ClausesOfSections(IdentifySections(document_text, pattern), patterns),
        min_confidence)

-----------------------------------------------------------------------------
(* Calls on the shared ClauseExtractionService instance                    *)

Calls == 1..MaxCalls

Filler == "the parties agree to the following terms and conditions"

\* clause texts: three indemnification keywords and a risk keyword; two
\* liability keywords (confidence exactly 0.5); one phrase matching the
\* arbitration and the dispute_resolution patterns (confidence below 0.5);
\* a paragraph shorter than 50 characters; a paragraph without keyword
IndemnityText == <<Filler, "indemnify", "hold harmless", "defend", "any and all">>
LiabilityText == <<Filler, "limitation of liability", "liability cap", "no limit">>
ArbitrationText == <<Filler, "binding arbitration", "NDA">>
ShortText == <<"hold harmless">>
PlainText == <<Filler>>

\* a phrase holding one keyword each of the confidentiality ("NDA" in
\* "mandatory"), dispute_resolution and arbitration patterns (equal scores
\* 1/7); five of the six liability keywords (score 1.25)
TieText == <<Filler, "mandatory arbitration">>
CappedText == <<Filler, "limitation of liability", "liability cap", "limited to",
                "in no event shall", "maximum liability">>

SampleClauseTexts ==
    {IndemnityText, LiabilityText, ArbitrationText, ShortText, PlainText,
     TieText, CappedText}

\* document texts: empty; without section headers; with two sections
SampleDocumentTexts ==
    {<<>>,
     <<Para(PlainText), Para(IndemnityText), Para(ArbitrationText)>>,
     <<Para(PlainText),
       Header("1", ".", "Indemnification"), Para(IndemnityText), Para(LiabilityText),
       Header("2", ")", "Disputes"), Para(ShortText), Para(ArbitrationText)>>}

\* min_confidence arguments: 0, the default 0.5, 0.6
SampleThresholds == {<<0, 1>>, DefaultMinConfidence, <<3, 5>>}

\* the calls a client may make
Requests ==
    {[op |-> "extract_clauses", document_text |-> d, clause_text |-> <<>>,
      min_confidence |-> m] :
        d \in SampleDocumentTexts, m \in SampleThresholds}
    \cup {[op |-> "classify_clause", document_text |-> <<>>, clause_text |-> t,
            min_confidence |-> <<0, 1>>] :
        t \in SampleClauseTexts}

NoLocals == [sections |-> <<>>, clauses |-> <<>>]

\* mutant: the calls keep sections and clauses in one place, as they would
\* in fields of the shared instance
MutSharedFrame(c) == 1

\* the frame that holds the local variables of call c: every invocation
\* has its own (sections, line 271; clauses, line 274)
FrameOf(c) == c

ExtractIdle ==
    /\ service = [section_pattern |-> NoneVal]
    /\ class_patterns = <<>>
    /\ requests = <<>>
    /\ pcCall = <<>>
    /\ frames = <<>>
    /\ returned = <<>>

\* the singleton after construction, and one pending call per client
ExtractInit ==
    /\ service = [section_pattern |-> SectionPattern]
    /\ class_patterns = CLAUSE_PATTERNS
    /\ requests \in [Calls -> Requests]
    /\ pcCall = [c \in Calls |-> "start"]
    /\ frames = [c \in Calls |-> NoLocals]
    /\ returned = [c \in Calls |-> <<>>]

\* extract_clauses lines 268-274: the sections of the text
IdentifyStep(c) ==
    /\ pcCall[c] = "start"
    /\ requests[c].op = "extract_clauses"
    /\ frames' = [frames EXCEPT ![FrameOf(c)] =
                     [sections |-> IdentifySections(requests[c].document_text, service.section_pattern),
                      clauses |-> <<>>]]
    /\ pcCall' = [pcCall EXCEPT ![c] = "sections"]
    /\ UNCHANGED <<service, class_patterns, requests, returned, otherThanExtract>>

\* extract_clauses lines 275-282: one turn of the loop over the sections
SectionStep(c) ==
    /\ pcCall[c] = "sections"
    /\ frames[FrameOf(c)].sections # <<>>
    /\ frames' = [frames EXCEPT ![FrameOf(c)] =
                     [sections |-> Tail(@.sections),
                      clauses |-> @.clauses \o
                          ExtractClausesFromSection(Head(@.sections), class_patterns)]]
    /\ UNCHANGED <<service, class_patterns, requests, pcCall, returned, otherThanExtract>>

\* extract_clauses lines 284-288: filter and return
FilterStep(c) ==
    /\ pcCall[c] = "sections"
    /\ frames[FrameOf(c)].sections = <<>>
    /\ returned' = [returned EXCEPT ![c] =
                       FilterByConfidence(frames[FrameOf(c)].clauses,
                                          requests[c].min_confidence)]
    /\ pcCall' = [pcCall EXCEPT ![c] = "returned"]
    /\ UNCHANGED <<service, class_patterns, requests, frames, otherThanExtract>>

\* classify_clause
ClassifyStep(c) ==
    /\ pcCall[c] = "start"
    /\ requests[c].op = "classify_clause"
    /\ returned' = [returned EXCEPT ![c] = ClassifyClause(requests[c].clause_text, class_patterns)]
    /\ pcCall' = [pcCall EXCEPT ![c] = "returned"]
    /\ UNCHANGED <<service, class_patterns, requests, frames, otherThanExtract>>

ExtractNext ==
    \E c \in Calls :
        \/ IdentifyStep(c)
        \/ SectionStep(c)
        \/ FilterStep(c)
        \/ ClassifyStep(c)

-----------------------------------------------------------------------------
(* legal_citation_parser.py: LegalCitationParser                           *)
(*                                                                         *)
(* Text.  A citation text is a sequence of tokens separated by single      *)
(* spaces; a token may carry a trailing comma.  Tokens are numbers (a run  *)
(* of digits), words (no digit first, no parenthesis), a parenthesised     *)
(* year "(1973)" and a parenthesised court and year "(9th Cir. 2020)".     *)
(* The regular expressions of the parser are applied to these tokens:      *)
(* \d+ is a number token, \s+ the space between two tokens, and            *)
(* [A-Z][A-Za-z.0-9]+ a word of ReporterLike shape.  Confidences are in    *)
(* hundredths.                                                             *)

MaxCitations == 2

Num(text, comma) == [kind |-> "num", text |-> text, year |-> "", comma |-> comma]
Word(text, comma) == [kind |-> "word", text |-> text, year |-> "", comma |-> comma]
Year(year, comma) == [kind |-> "year", text |-> "", year |-> year, comma |-> comma]
Court(court, year, comma) == [kind |-> "court", text |-> court, year |-> year, comma |-> comma]

FEDERAL_REPORTERS ==
    ("U.S." :> "United States Reports")
    @@ ("S.Ct." :> "Supreme Court Reporter")
    @@ ("L.Ed." :> "Lawyers' Edition")
    @@ ("F." :> "Federal Reporter")
    @@ ("F.2d" :> "Federal Reporter, Second Series")
    @@ ("F.3d" :> "Federal Reporter, Third Series")
    @@ ("F.4th" :> "Federal Reporter, Fourth Series")
    @@ ("F.Supp." :> "Federal Supplement")
    @@ ("F.Supp.2d" :> "Federal Supplement, Second Series")
    @@ ("F.Supp.3d" :> "Federal Supplement, Third Series")

STATE_REPORTERS ==
    ("Cal." :> "California Reporter")
    @@ ("Cal.2d" :> "California Reporter, Second Series")
    @@ ("Cal.3d" :> "California Reporter, Third Series")
    @@ ("Cal.4th" :> "California Reporter, Fourth Series")
    @@ ("N.Y." :> "New York Reports")
    @@ ("N.Y.2d" :> "New York Reports, Second Series")
    @@ ("Tex." :> "Texas Reports")
    @@ ("Fla." :> "Florida Reports")
    @@ ("Ill." :> "Illinois Reports")
    @@ ("P." :> "Pacific Reporter")
    @@ ("P.2d" :> "Pacific Reporter, Second Series")
    @@ ("P.3d" :> "Pacific Reporter, Third Series")
    @@ ("A." :> "Atlantic Reporter")
    @@ ("A.2d" :> "Atlantic Reporter, Second Series")
    @@ ("A.3d" :> "Atlantic Reporter, Third Series")
    @@ ("N.E." :> "North Eastern Reporter")
    @@ ("N.E.2d" :> "North Eastern Reporter, Second Series")
    @@ ("N.E.3d" :> "North Eastern Reporter, Third Series")
    @@ ("S.E." :> "South Eastern Reporter")
    @@ ("S.E.2d" :> "South Eastern Reporter, Second Series")
    @@ ("S.W." :> "South Western Reporter")
    @@ ("S.W.2d" :> "South Western Reporter, Second Series")
    @@ ("S.W.3d" :> "South Western Reporter, Third Series")

\* __init__: self.all_reporters = {**FEDERAL_REPORTERS, **STATE_REPORTERS}
all_reporters == FEDERAL_REPORTERS @@ STATE_REPORTERS

\* words that are neither reporters nor of the shape [A-Z][A-Za-z.0-9]+
PlainWords == {"see", "v.", "and", "hello", "world", "\\u00a7", "\\u0e22\\u0e07"}

\* the section sign as the statute patterns of lines 217 and 235 spell it
\* (the two characters U+0E22 U+0E07), and the section sign U+00A7
PatternSectionSign == "\\u0e22\\u0e07"
SectionSign == "\\u00a7"

\* group 2 of CASE_CITATION_PATTERN: [A-Z][A-Za-z.0-9]+
ReporterLike(text) == text \notin PlainWords

\* group 1 of the state statute pattern: [A-Z][a-z.]+
StateLike(text) == text \in {"Cal.", "Tex.", "Fla.", "Ill."}

\* characters of a token, its trailing comma not counted
TokLen(t) ==
    CASE t.kind = "year" -> 6
      [] t.kind = "court" -> Len(t.text) + 7
      [] OTHER -> Len(t.text)

\* offset of the first character of token i
TokStart(tokens, i) ==
    SumSeq([j \in 1..(i - 1) |->
               TokLen(tokens[j]) + (IF tokens[j].comma THEN 1 ELSE 0) + 1])

\* offset behind the last character of token i (before its comma)
TokEnd(tokens, i) == TokStart(tokens, i) + TokLen(tokens[i])

\* CASE_CITATION_PATTERN matches with its first digit at token i
CaseMatchAt(tokens, i) ==
    /\ i + 2 <= Len(tokens)
    /\ tokens[i].kind = "num" /\ ~tokens[i].comma
    /\ tokens[i + 1].kind = "word" /\ ~tokens[i + 1].comma
    /\ ReporterLike(tokens[i + 1].text)
    /\ tokens[i + 2].kind = "num"

\* the match object: groups 1-4 and the tokens it spans (the optional
\* group (?:,?\s+(\d+))? is greedy: a number behind the page is taken)
CaseMatch(tokens, i) ==
    LET pin == i + 3 <= Len(tokens) /\ tokens[i + 3].kind = "num"
    IN  [first |-> i,
         last |-> IF pin THEN i + 3 ELSE i + 2,
         volume |-> tokens[i].text,
         reporter |-> tokens[i + 1].text,
         page |-> tokens[i + 2].text,
         pinpoint |-> IF pin THEN tokens[i + 3].text ELSE NoneVal]

\* re.search / the next step of re.finditer: the first match from token
\* `from` on, or None
SearchCase(tokens, from) ==
    LET at == {i \in from..Len(tokens) : CaseMatchAt(tokens, i)}
    IN  IF at = {} THEN None
        ELSE Some(CaseMatch(tokens, CHOOSE i \in at : \A j \in at : i <= j))

\* _normalize_reporter: re.sub(r"\s+", "", reporter).  Group 2 of the
\* pattern holds no whitespace, so nothing is removed from it.
NormalizeReporter(reporter) == reporter

\* tokens without the trailing comma of the last one: s.rstrip(",")
RStripComma(tokens) ==
    IF tokens = <<>> THEN tokens
    ELSE [tokens EXCEPT ![Len(tokens)].comma = FALSE]

\* _extract_case_name on the text before the citation
ExtractCaseName(before) ==
    IF before # <<>> THEN Some(RStripComma(before)) ELSE None

\* court.lower().replace(" ", "-")
CourtSlug(court) ==
    CASE court = "9th Cir." -> "9th-cir."
      [] court = "Cal. Ct. App." -> "cal.-ct.-app."
      [] OTHER -> court

\* _determine_jurisdiction
DetermineJurisdiction(reporter, court) ==
    CASE reporter = "U.S." -> "federal-supreme"
      [] reporter \in {"F.", "F.2d", "F.3d", "F.4th"} -> "federal-circuit"
      [] reporter \in {"F.Supp.", "F.Supp.2d", "F.Supp.3d"} -> "federal-district"
      [] reporter \in {"Cal.", "Cal.2d", "Cal.3d", "Cal.4th"} -> "california"
      [] reporter \in {"N.Y.", "N.Y.2d"} -> "new-york"
      [] reporter = "Tex." -> "texas"
      [] reporter = "Fla." -> "florida"
      [] reporter = "Ill." -> "illinois"
      [] OTHER -> IF court # NoneVal THEN CourtSlug(court) ELSE NoneVal

\* COURT_PATTERN, else YEAR_PATTERN, searched in the tokens of a region:
\* the first "(court year)" if there is one, else the first "(year)"
CourtAndYear(region) ==
    LET IsCourt(t) == t.kind = "court"
        IsYear(t) == t.kind = "year"
        courts == SelectSeq(region, IsCourt)
        years == SelectSeq(region, IsYear)
    IN  IF courts # <<>> THEN [court |-> courts[1].text, year |-> courts[1].year]
        ELSE IF years # <<>> THEN [court |-> NoneVal, year |-> years[1].year]
        ELSE [court |-> NoneVal, year |-> NoneVal]

CitationTypeOf(reporter) ==
    IF reporter \in DOMAIN FEDERAL_REPORTERS THEN "federal_case" ELSE "state_case"

\* the dataclass ParsedCitation with its defaults
ParsedCitation(raw_citation, citation_type) ==
    [raw_citation |-> raw_citation, citation_type |-> citation_type,
     volume |-> NoneVal, reporter |-> NoneVal, page |-> NoneVal,
     year |-> NoneVal, court |-> NoneVal, case_name |-> None,
     jurisdiction |-> NoneVal, pinpoint |-> NoneVal,
     is_valid |-> TRUE, confidence |-> 0]

\* _parse_case_citation lines 158-168: the reporter is in no table
UnknownReporter(citation_text, match) ==
    Some([ParsedCitation(citation_text, "unknown") EXCEPT
            !.volume = match.volume, !.reporter = match.reporter,
            !.page = match.page, !.is_valid = FALSE, !.confidence = 30])

\* _parse_case_citation
ParseCaseCitation(citation_text) ==
    LET found == SearchCase(citation_text, 1)
    IN  IF found = None THEN None
        ELSE LET match == found[1]
                 reporter == IF match.reporter \in DOMAIN all_reporters
                             THEN match.reporter
                             ELSE NormalizeReporter(match.reporter)
                 cy == CourtAndYear(citation_text)
             IN  IF reporter \notin DOMAIN all_reporters
                 THEN UnknownReporter(citation_text, match)
                 ELSE Some([ParsedCitation(citation_text, CitationTypeOf(reporter)) EXCEPT
                         !.volume = match.volume, !.reporter = reporter,
                         !.page = match.page, !.year = cy.year, !.court = cy.court,
                         !.case_name = ExtractCaseName(SubSeq(citation_text, 1, match.first - 1)),
                         !.jurisdiction = DetermineJurisdiction(reporter, cy.court),
                         !.pinpoint = match.pinpoint, !.confidence = 95])

\* _parse_statute: the U.S. Code pattern, then the state pattern
ParseStatute(citation_text) ==
    LET IsSign(i) == /\ citation_text[i].kind = "word"
                     /\ citation_text[i].text = PatternSectionSign
                     /\ ~citation_text[i].comma
                     /\ i + 1 <= Len(citation_text)
                     /\ citation_text[i + 1].kind = "num"
        Plain(i, text) == /\ citation_text[i].kind = "word"
                          /\ citation_text[i].text = text
                          /\ ~citation_text[i].comma
        usc == {i \in DOMAIN citation_text :
                   /\ i + 3 <= Len(citation_text)
                   /\ citation_text[i].kind = "num" /\ ~citation_text[i].comma
                   /\ Plain(i + 1, "U.S.C.")
                   /\ IsSign(i + 2)}
        code(i) == Plain(i, "Code") \/ Plain(i, "Stat.")
        state == {i \in DOMAIN citation_text :
                   /\ i + 3 <= Len(citation_text)
                   /\ citation_text[i].kind = "word" /\ ~citation_text[i].comma
                   /\ StateLike(citation_text[i].text)
                   /\ code(i + 1)
                   /\ \/ IsSign(i + 2)
                      \/ Plain(i + 2, "Ann.") /\ i + 4 <= Len(citation_text) /\ IsSign(i + 3)}
        first(S) == CHOOSE i \in S : \A j \in S : i <= j
        section(i) == IF citation_text[i + 2].text = "Ann."
                      THEN citation_text[i + 4].text ELSE citation_text[i + 3].text
    IN  IF usc # {}
        THEN Some([ParsedCitation(citation_text, "statute") EXCEPT
                     !.volume = citation_text[first(usc)].text,
                     !.page = citation_text[first(usc) + 3].text,
                     !.jurisdiction = "federal", !.confidence = 90])
        ELSE IF state # {}
        THEN Some([ParsedCitation(citation_text, "statute") EXCEPT
                     !.page = section(first(state)),
                     !.jurisdiction = Lower(citation_text[first(state)].text),
                     !.confidence = 85])
        ELSE None

\* parse_citation
ParseCitation(citation_text) ==
    LET case == ParseCaseCitation(citation_text)
        statute == ParseStatute(citation_text)
    IN  IF case # None /\ case[1].is_valid THEN case[1]
        ELSE IF statute # None /\ statute[1].is_valid THEN statute[1]
        ELSE [ParsedCitation(citation_text, "unknown") EXCEPT
                 !.is_valid = FALSE, !.confidence = 0]

\* the tokens of text[max(0, start - 100):start] for a match at token i
CaseNameWindow(text, i) ==
    LET Inside(j) == j < i /\ TokStart(text, j) >= TokStart(text, i) - 100
        n == Cardinality({j \in DOMAIN text : Inside(j)})
    IN  [k \in 1..n |-> text[i - n + k - 1]]

\* the tokens of text[end:min(len(text), end + 50)] for a match whose last
\* token is i: the tokens that end within 50 characters of the match
YearWindow(text, i) ==
    LET Inside(j) == j > i /\ TokEnd(text, j) <= TokEnd(text, i) + 50
        n == Cardinality({j \in DOMAIN text : Inside(j)})
    IN  [k \in 1..n |-> text[i + k]]

\* match.group(0): the tokens of the match, the comma behind it left out
MatchText(text, match) ==
    RStripComma(SubSeq(text, match.first, match.last))

\* cite_key = f"{volume}_{reporter}_{page}"; none of the three groups can
\* hold an underscore, so the key is the triple
CiteKey(match) == <<match.volume, match.reporter, match.page>>

RECURSIVE ExtractFrom(_, _, _)
\* extract_citations_from_text lines 314-379: the loop over
\* re.finditer(pattern, text) from token `from` on
ExtractFrom(text, from, seen_citations) ==
    LET found == SearchCase(text, from)
    IN  IF found = None THEN <<>>
        ELSE LET match == found[1]
                 reporter_normalized ==
                     IF match.reporter \in DOMAIN all_reporters
                     THEN match.reporter
                     ELSE NormalizeReporter(match.reporter)
                 before == RStripComma(CaseNameWindow(text, match.first))
                 cy == CourtAndYear(YearWindow(text, match.last))
                 parsed ==
                     [ParsedCitation(MatchText(text, match),
                                     CitationTypeOf(reporter_normalized)) EXCEPT
                         !.volume = match.volume, !.reporter = reporter_normalized,
                         !.page = match.page, !.year = cy.year, !.court = cy.court,
                         !.case_name = ExtractCaseName(before),
                         !.jurisdiction = DetermineJurisdiction(reporter_normalized, cy.court),
                         !.pinpoint = match.pinpoint, !.confidence = 90]
             IN  IF CiteKey(match) \in seen_citations
                 THEN ExtractFrom(text, match.last + 1, seen_citations)
                 ELSE IF reporter_normalized \notin DOMAIN all_reporters
                 THEN ExtractFrom(text, match.last + 1, seen_citations)
                 ELSE <<parsed>> \o ExtractFrom(text, match.last + 1,
                                        seen_citations \cup {CiteKey(match)})

\* extract_citations_from_text
ExtractCitationsFromText(text) == ExtractFrom(text, 1, {})

\* truth value of an Optional[str] field
Present(field) == field # NoneVal /\ field # ""

\* validate_citation
ValidateCitation(citation) ==
    IF ~citation.is_valid THEN FALSE
    ELSE IF /\ citation.citation_type \in {"federal_case", "state_case"}
            /\ ~(Present(citation.volume) /\ Present(citation.reporter)
                 /\ Present(citation.page))
    THEN FALSE
    ELSE IF citation.citation_type = "statute" /\ ~Present(citation.page)
    THEN FALSE
    ELSE TRUE

\* mutant: the court is left out of the parenthetical
MutFormatBluebook(citation) ==
    IF citation.citation_type \in {"federal_case", "state_case"}
    THEN <<Num(citation.volume, FALSE), Word(citation.reporter, FALSE),
           Num(citation.page, FALSE)>>
         \o (IF Present(citation.pinpoint) THEN <<Num(citation.pinpoint, FALSE)>> ELSE <<>>)
         \o (IF Present(citation.year) THEN <<Year(citation.year, FALSE)>> ELSE <<>>)
    ELSE citation.raw_citation

\* _format_bluebook: " ".join(parts)
FormatBluebook(citation) ==
    IF citation.citation_type \in {"federal_case", "state_case"}
    THEN <<Num(citation.volume, FALSE), Word(citation.reporter, FALSE),
           Num(citation.page, FALSE)>>
         \o (IF Present(citation.pinpoint) THEN <<Num(citation.pinpoint, FALSE)>> ELSE <<>>)
         \o (IF Present(citation.court) /\ Present(citation.year)
             THEN <<Court(citation.court, citation.year, FALSE)>>
             ELSE IF Present(citation.year) THEN <<Year(citation.year, FALSE)>>
             ELSE <<>>)
    ELSE citation.raw_citation

\* format_citation
FormatCitation(citation, style) ==
    IF style = "bluebook" THEN FormatBluebook(citation) ELSE citation.raw_citation

\* ---- sample texts ----

CaseNames == {<<>>, <<Word("see", FALSE)>>,
              <<Word("Roe", FALSE), Word("v.", FALSE), Word("Wade", TRUE)>>}

\* what may follow the page: nothing, ", 120", " 120"
Pinpoints == {<<FALSE>>, <<TRUE, "120">>, <<FALSE, "120">>}

Parentheticals == {<<>>, <<Year("1973", FALSE)>>, <<Court("9th Cir.", "2020", FALSE)>>}

\* volume reporter page [pinpoint]
Core(volume, reporter, page, pin) ==
    <<Num(volume, FALSE), Word(reporter, FALSE), Num(page, pin[1])>>
    \o (IF Len(pin) = 2 THEN <<Num(pin[2], FALSE)>> ELSE <<>>)

\* single citations, their reporter a federal one, a state one, a
\* regional one, or none of the tables'
CitationUnits ==
    {name \o Core(volume, reporter, "113", pin) \o paren :
        name \in CaseNames, volume \in {"410", "93"},
        reporter \in {"U.S.", "Cal.4th", "P.2d", "Foo"},
        pin \in Pinpoints, paren \in Parentheticals}

\* texts without a case citation: plain words, a U.S. Code and a state
\* statute citation with the section sign the patterns spell and with the
\* section sign itself, and the empty text
OtherTexts ==
    {<<>>,
     <<Word("hello", FALSE), Word("world", FALSE)>>,
     <<Num("42", FALSE), Word("U.S.C.", FALSE), Word(PatternSectionSign, FALSE), Num("1983", FALSE)>>,
     <<Num("42", FALSE), Word("U.S.C.", FALSE), Word(SectionSign, FALSE), Num("1983", FALSE)>>,
     <<Word("Cal.", FALSE), Word("Code", FALSE), Word("Ann.", FALSE),
       Word(PatternSectionSign, FALSE), Num("123", FALSE)>>}

\* the citations that texts with several citations are made of
ShortUnits ==
    {Core(volume, reporter, "113", pin) \o paren :
        volume \in {"410", "93"}, reporter \in {"U.S.", "Foo"},
        pin \in {<<FALSE>>, <<TRUE, "120">>},
        paren \in {<<>>, <<Year("1973", FALSE)>>}}

\* a and b in one text: side by side, separated by a comma, or by "and"
Joined(a, b) ==
    IF a = <<>> THEN {b}
    ELSE {a \o b, RStripComma(a) \o b,
          [a EXCEPT ![Len(a)].comma = TRUE] \o b,
          a \o <<Word("and", FALSE)>> \o b}

RECURSIVE TextsOf(_)
\* texts of up to n citations
TextsOf(n) ==
    IF n = 0 THEN {<<>>}
    ELSE LET shorter == TextsOf(n - 1)
         IN  shorter \cup UNION {Joined(t, u) : t \in shorter, u \in ShortUnits}

CitationTexts == CitationUnits \cup OtherTexts \cup TextsOf(MaxCitations)

Styles == {"bluebook", "raw"}

NoCitation == ParsedCitation(<<>>, "unknown")

CitationIdle ==
    /\ pcCite = "idle"
    /\ input_text = <<>>
    /\ parsed_citation = NoCitation
    /\ formatted = <<>>
    /\ reparsed = NoCitation
    /\ citations = <<>>

CitationInit ==
    /\ pcCite = "start"
    /\ input_text \in CitationTexts
    /\ parsed_citation = NoCitation
    /\ formatted = <<>>
    /\ reparsed = NoCitation
    /\ citations = <<>>

\* parser.parse_citation(text)
ParseStep ==
    /\ pcCite = "start"
    /\ parsed_citation' = ParseCitation(input_text)
    /\ pcCite' = "parsed"
    /\ UNCHANGED <<input_text, formatted, reparsed, citations, otherThanCitation>>

\* parser.format_citation(parsed, style)
FormatStep ==
    /\ pcCite = "parsed"
    /\ \E style \in Styles :
          /\ formatted' = FormatCitation(parsed_citation, style)
          /\ pcCite' = IF style = "bluebook" THEN "formatted" ELSE "formatted_raw"
    /\ UNCHANGED <<input_text, parsed_citation, reparsed, citations, otherThanCitation>>

\* parser.parse_citation(formatted)
ReparseStep ==
    /\ pcCite \in {"formatted", "formatted_raw"}
    /\ reparsed' = ParseCitation(formatted)
    /\ pcCite' = IF pcCite = "formatted" THEN "reparsed" ELSE "reparsed_raw"
    /\ UNCHANGED <<input_text, parsed_citation, formatted, citations, otherThanCitation>>

\* parser.extract_citations_from_text(text)
ExtractStep ==
    /\ pcCite = "start"
    /\ citations' = ExtractCitationsFromText(input_text)
    /\ pcCite' = "extracted"
    /\ UNCHANGED <<input_text, parsed_citation, formatted, reparsed, otherThanCitation>>

CitationNext == ParseStep \/ FormatStep \/ ReparseStep \/ ExtractStep

-----------------------------------------------------------------------------
(* case_library_service.py: CaseRankingService.rank_cases_by_relevance     *)
(*                                                                         *)
(* relevance_score is in thousandths, final_score (rounded to 2 decimals)  *)
(* in hundredths; decision_date is the age of the decision in days.        *)

MaxCandidates == 3

\* CaseSearchResult values; with the boosts of lines 446-459 several of
\* them reach the same final_score (10.0) along different ways
Candidates ==
    {[case_id |-> "A", case_name |-> "Doe v. Roe", jurisdiction |-> NoneVal,
      decision_date |-> Some(700), relevance_score |-> 5000],
     [case_id |-> "B", case_name |-> "Doe v. Roe", jurisdiction |-> NoneVal,
      decision_date |-> Some(3000), relevance_score |-> 10004],
     [case_id |-> "C", case_name |-> "Doe v. Roe", jurisdiction |-> "Delaware",
      decision_date |-> None, relevance_score |-> 2001],
     [case_id |-> "D", case_name |-> "Smith v. Corporate Holdings",
      jurisdiction |-> NoneVal, decision_date |-> None, relevance_score |-> 0],
     [case_id |-> "E", case_name |-> "Doe v. Roe", jurisdiction |-> "Delaware",
      decision_date |-> Some(700), relevance_score |-> 12500],
     [case_id |-> "F", case_name |-> "Doe v. Roe", jurisdiction |-> "US Federal",
      decision_date |-> None, relevance_score |-> 3000]}

\* candidate lists without repetition, up to MaxCandidates long
CandidateLists ==
    UNION {{s \in [1..n -> Candidates] : \A i, j \in 1..n : s[i] = s[j] => i = j} :
              n \in 0..MaxCandidates}

\* the document argument: None, or an object whose jurisdiction is
\* absent (the Document class declares none), None, or a string
RankDocuments ==
    {[present |-> FALSE, jurisdiction |-> NoneVal],
     [present |-> TRUE, jurisdiction |-> AttributeMissing],
     [present |-> TRUE, jurisdiction |-> NoneVal],
     [present |-> TRUE, jurisdiction |-> "Delaware"],
     [present |-> TRUE, jurisdiction |-> "Delaware Chancery"],
     [present |-> TRUE, jurisdiction |-> "Federal Circuit"]}

PracticeAreas == {NoneVal, "Corporate"}

\* lines 443-459: the score of one case, in thousandths
BoostedScore(case, doc, practice_area) ==
    case.relevance_score
    + (IF /\ Truthy(practice_area)
          /\ Contains(Lower(case.case_name), Lower(practice_area))
       THEN 10000 ELSE 0)
    + (IF case.decision_date # None /\ case.decision_date[1] < 5 * 365
       THEN 5000 ELSE 0)
    + (IF /\ doc.present /\ Truthy(doc.jurisdiction) /\ Truthy(case.jurisdiction)
          /\ Contains(Lower(case.jurisdiction), Lower(doc.jurisdiction))
       THEN 8000 ELSE 0)

\* lines 461-465: the entry appended for one case
RankedEntry(case, doc, practice_area) ==
    [case |-> case,
     final_score |-> RoundHalfEven(BoostedScore(case, doc, practice_area), 10),
     rank |-> 0]

\* mutant: an entry goes in front of the entries with the same score
MutInsertByFinalScore(x, sorted) ==
    LET Greater(e) == e.final_score > x.final_score
        NotGreater(e) == ~Greater(e)
    IN  SelectSeq(sorted, Greater) \o <<x>> \o SelectSeq(sorted, NotGreater)

\* x goes behind every entry whose score is not smaller
InsertByFinalScore(x, sorted) ==
    LET NotSmaller(e) == e.final_score >= x.final_score
        Smaller(e) == ~NotSmaller(e)
    IN  SelectSeq(sorted, NotSmaller) \o <<x>> \o SelectSeq(sorted, Smaller)

RECURSIVE SortByFinalScore(_)
\* line 468: ranked.sort(key=final_score, reverse=True); list.sort is
\* stable, also with reverse=True
SortByFinalScore(s) ==
    IF s = <<>> THEN <<>>
    ELSE InsertByFinalScore(s[Len(s)], SortByFinalScore(SubSeq(s, 1, Len(s) - 1)))

\* lines 471-472: item["rank"] = i + 1
AssignRanks(s) == [i \in DOMAIN s |-> [s[i] EXCEPT !.rank = i]]

\* the case loop reads document.jurisdiction of a document without it
RankRaisesAttributeError(input) ==
    /\ input.cases # <<>>
    /\ input.document.present
    /\ input.document.jurisdiction = AttributeMissing

RankIdle ==
    /\ pcRank = "idle"
    /\ rank_input = [cases |-> <<>>]
    /\ ranked = <<>>

RankInit ==
    /\ pcRank = "start"
    /\ rank_input \in [cases : CandidateLists, document : RankDocuments,
                       practice_area : PracticeAreas]
    /\ ranked = <<>>

\* lines 439-465: the loop over the cases
ScoreCases ==
    /\ pcRank = "start"
    /\ IF RankRaisesAttributeError(rank_input)
       THEN pcRank' = "raised" /\ ranked' = <<>>
       ELSE /\ pcRank' = "scored"
            /\ ranked' = [i \in DOMAIN rank_input.cases |->
                             RankedEntry(rank_input.cases[i], rank_input.document,
                                         rank_input.practice_area)]
    /\ UNCHANGED <<rank_input, otherThanRank>>

\* line 468
SortRanked ==
    /\ pcRank = "scored"
    /\ ranked' = SortByFinalScore(ranked)
    /\ pcRank' = "sorted"
    /\ UNCHANGED <<rank_input, otherThanRank>>

\* lines 471-474: the ranks, and return
RankAndReturn ==
    /\ pcRank = "sorted"
    /\ ranked' = AssignRanks(ranked)
    /\ pcRank' = "returned"
    /\ UNCHANGED <<rank_input, otherThanRank>>

RankNext == ScoreCases \/ SortRanked \/ RankAndReturn

-----------------------------------------------------------------------------
(* predictive_analytics_service.py: estimate_settlement_amount             *)
(*                                                                         *)
(* Amounts are in thousands of dollars.  A statistic is the exact          *)
(* fraction <<numerator, denominator>> in lowest terms of the value the    *)
(* float computation approximates; std_dev holds the square of the         *)
(* standard deviation.                                                     *)

MaxSettlements == 3

RECURSIVE Gcd(_, _)
Gcd(a, b) == IF b = 0 THEN a ELSE Gcd(b, a % b)

\* the fraction n/d (d > 0) in lowest terms
Frac(n, d) ==
    LET g == Gcd(Abs(n), d)
    IN  IF n = 0 THEN <<0, 1>> ELSE <<n \div g, d \div g>>

FracTimes(a, b) == Frac(a[1] * b[1], a[2] * b[2])

FracLeq(a, b) == a[1] * b[2] <= b[1] * a[2]

RECURSIVE InsertAscending(_, _)
InsertAscending(x, sorted) ==
    IF sorted = <<>> THEN <<x>>
    ELSE IF Head(sorted) <= x
         THEN <<Head(sorted)>> \o InsertAscending(x, Tail(sorted))
         ELSE <<x>> \o sorted

RECURSIVE Sorted(_)
\* sorted(settlements)
Sorted(s) ==
    IF s = <<>> THEN <<>>
    ELSE InsertAscending(s[Len(s)], Sorted(SubSeq(s, 1, Len(s) - 1)))

\* mutant: the value at the index, without interpolation
MutPercentile(sorted, p) ==
    Frac(sorted[(((Len(sorted) - 1) * p) \div 100) + 1], 1)

\* percentile(p) of lines 231-237, p in hundredths: k = (n - 1) * p,
\* f = int(k), c = k - f
Percentile(sorted, p) ==
    LET n == Len(sorted)
        f == ((n - 1) * p) \div 100
        c == ((n - 1) * p) % 100
    IN  IF f + 1 < n
        THEN Frac(100 * sorted[f + 1] + c * (sorted[f + 2] - sorted[f + 1]), 100)
        ELSE Frac(sorted[f + 1], 1)

\* stdev(settlements) ** 2: sum((x - mean) ** 2) / (n - 1)
Variance(s) ==
    LET n == Len(s)
        sum == SumSeq(s)
        squares == SumSeq([i \in DOMAIN s |-> s[i] * s[i]])
    IN  Frac(n * squares - sum * sum, n * (n - 1))

\* _calculate_settlement_statistics
CalculateSettlementStatistics(amounts) ==
    LET sorted == Sorted(amounts)
        n == Len(sorted)
    IN  [min |-> Frac(sorted[1], 1),
         p10 |-> Percentile(sorted, 10),
         p25 |-> Percentile(sorted, 25),
         median |-> Percentile(sorted, 50),
         p75 |-> Percentile(sorted, 75),
         p90 |-> Percentile(sorted, 90),
         max |-> Frac(sorted[n], 1),
         mean |-> Frac(SumSeq(sorted), n),
         std_dev |-> IF n > 1 THEN Variance(sorted) ELSE <<0, 1>>]

\* _adjust_settlement_for_claim: every statistic times
\* claim_amount / (median / 0.55)
AdjustSettlementForClaim(s, claim) ==
    IF claim > 0
    THEN LET adjustment_ratio == Frac(claim * 55 * s.median[2], 100 * s.median[1])
         IN  [key \in DOMAIN s |->
                 IF key = "std_dev"
                 THEN FracTimes(s[key], FracTimes(adjustment_ratio, adjustment_ratio))
                 ELSE FracTimes(s[key], adjustment_ratio)]
    ELSE s

\* truth value of an Optional[float]
TruthyAmount(x) == x # None /\ x[1] # 0

\* _generate_settlement_recommendation; the amounts of the last message
\* are in dollars, formatted with {:,.0f}
GenerateSettlementRecommendation(s, claim) ==
    IF TruthyAmount(claim) /\ claim[1] > 0
    THEN LET ratio == Frac(s.median[1], s.median[2] * claim[1])
         IN  IF ~FracLeq(ratio, <<7, 10>>)
             THEN [message |-> "Historical data suggests high settlement ratio. Strong negotiating position."]
             ELSE IF ~FracLeq(ratio, <<4, 10>>)
             THEN [message |-> "Settlement likely in range of 40-70% of claim amount."]
             ELSE [message |-> "Historical settlements significantly below claim amount. Adjust expectations."]
    ELSE [message |-> "Expected settlement range",
          low |-> RoundHalfEven(1000 * s.p25[1], s.p25[2]),
          high |-> RoundHalfEven(1000 * s.p75[1], s.p75[2])]

\* mutant: ten samples still count as low
MutSettlementConfidence(n) ==
    IF n >= 20 THEN "high" ELSE IF n > 10 THEN "medium" ELSE "low"

\* line 209
SettlementConfidence(n) ==
    IF n >= 20 THEN "high" ELSE IF n >= 10 THEN "medium" ELSE "low"

\* _find_similar_cases_with_settlements: the rows with a settlement amount
\* that is not NULL and positive, at most `limit`
FindSimilarCasesWithSettlements(store, limit) ==
    LET Qualifies(row) == row # None /\ row[1] > 0
        rows == SelectSeq(store, Qualifies)
    IN  SubSeq(rows, 1, Min(Len(rows), limit))

\* line 194: [p.settlement_amount for p in precedents if p.settlement_amount]
SettlementAmounts(rows) ==
    LET found == SelectSeq(rows, TruthyAmount)
    IN  [i \in DOMAIN found |-> found[i][1]]

NoData(message) ==
    [settlement_range |-> None, confidence |-> "low", message |-> message]

\* ---- populations ----

\* a row's settlement_amount: NULL, 0, or an amount
StoredAmounts == {None, Some(0), Some(100), Some(150), Some(300)}

\* the amounts 100k, 150k, 200k, 250k, 300k as the query may order them
ScenarioStore == <<Some(250), Some(100), Some(300), Some(150), Some(200)>>

\* population sizes around the confidence thresholds
ThresholdSizes == {9, 10, 11, 19, 20, 21}

LongStore(n) == [i \in 1..n |-> Some(100 + 10 * ((7 * i) % n))]

SettlementStores ==
    UNION {[1..n -> StoredAmounts] : n \in 0..MaxSettlements}
    \cup {ScenarioStore}
    \cup {LongStore(n) : n \in ThresholdSizes}

ClaimAmounts == {None, Some(0), Some(400), Some(-5)}

NoStatistics == [min |-> <<0, 1>>]

NoEstimate == [returned |-> FALSE]

SettleIdle ==
    /\ pcSettle = "idle"
    /\ settlement_store = <<>>
    /\ claim_amount = None
    /\ settlements = <<>>
    /\ settlement_stats = NoStatistics
    /\ estimate = NoEstimate

SettleInit ==
    /\ pcSettle = "start"
    /\ settlement_store \in SettlementStores
    /\ claim_amount \in ClaimAmounts
    /\ settlements = <<>>
    /\ settlement_stats = NoStatistics
    /\ estimate = NoEstimate

\* lines 177-199: the query, the two no-data returns, the amounts
FindSettlements ==
    /\ pcSettle = "start"
    /\ LET found == FindSimilarCasesWithSettlements(settlement_store, 50)
           amounts == SettlementAmounts(found)
       IN  IF found = <<>>
           THEN /\ estimate' = NoData("Insufficient historical data for settlement estimation")
                /\ pcSettle' = "returned"
                /\ UNCHANGED settlements
           ELSE IF amounts = <<>>
           THEN /\ estimate' = NoData("No settlement data available for similar cases")
                /\ pcSettle' = "returned"
                /\ UNCHANGED settlements
           ELSE /\ settlements' = amounts
                /\ pcSettle' = "statistics"
                /\ UNCHANGED estimate
    /\ UNCHANGED <<settlement_store, claim_amount, settlement_stats, otherThanSettle>>

\* line 202
CalculateStatistics ==
    /\ pcSettle = "statistics"
    /\ settlement_stats' = CalculateSettlementStatistics(settlements)
    /\ pcSettle' = "adjust"
    /\ UNCHANGED <<settlement_store, claim_amount, settlements, estimate, otherThanSettle>>

\* lines 205-206: if claim_amount: stats = _adjust_settlement_for_claim(...)
AdjustForClaim ==
    /\ pcSettle = "adjust"
    /\ settlement_stats' = IF TruthyAmount(claim_amount)
                THEN AdjustSettlementForClaim(settlement_stats, claim_amount[1])
                ELSE settlement_stats
    /\ pcSettle' = "confidence"
    /\ UNCHANGED <<settlement_store, claim_amount, settlements, estimate, otherThanSettle>>

\* lines 209-221: the confidence and the dictionary returned
ReturnEstimate ==
    /\ pcSettle = "confidence"
    /\ estimate' =
          [settlement_range |-> Some([low |-> settlement_stats.p25, expected |-> settlement_stats.median,
                                      high |-> settlement_stats.p75]),
           statistics |-> settlement_stats,
           confidence |-> SettlementConfidence(Len(settlements)),
           based_on_cases |-> Len(settlements),
           recommendation |-> GenerateSettlementRecommendation(settlement_stats, claim_amount)]
    /\ pcSettle' = "returned"
    /\ UNCHANGED <<settlement_store, claim_amount, settlements, settlement_stats, otherThanSettle>>

SettleNext == FindSettlements \/ CalculateStatistics \/ AdjustForClaim \/ ReturnEstimate

-----------------------------------------------------------------------------
(***************************************************************************)
(* PredictiveAnalyticsService.predict_case_timeline                        *)
(* (predictive_analytics_service.py, lines 281-418).                       *)
(*                                                                         *)
(* Dates are day numbers, so that (decision_date - filing_date).days is    *)
(* their difference.  The percentiles are exact fractions: k = (n - 1) * p *)
(* is exact in binary for p = 0.25, 0.5, 0.75.  The products that int()    *)
(* truncates are binary64 products: see FloatProductInt.  The result's     *)
(* estimated_months and factors are not modelled; estimated_date is the    *)
(* number of days after today.                                             *)
(***************************************************************************)

MaxTimelinePrecedents == 3

\* a binary64 multiplier: the decimal literal num/den and, where the
\* nearest binary64 value lies below the literal, the amount "short" by
\* which it does so in units of its last place (2^-53 for a value in
\* [1/2, 1)):  0.7 = (6305039478318694 + 2/5) * 2^-53,
\*             0.6 = (5404319552844595 + 1/5) * 2^-53.
\* 1.0 and 0.75 are exact; the binary64 values of 0.4, 0.2, 0.1 and 1.3
\* lie above the literal, which never changes the whole part of a product
\* with a multiple of 1/4.
Float(num, den, short) == [num |-> num, den |-> den, short |-> short]

\* the smallest power of two that is at least n (n >= 1)
RECURSIVE Pow2Ceil(_, _)
Pow2Ceil(n, p) == IF p >= n THEN p ELSE Pow2Ceil(n, 2 * p)

\* int(x * m) for a non-negative x = <<n, d>> (exact in binary) and a
\* multiplier m: the whole part of the exact product, except where the
\* exact product is a whole number N and the binary64 product, rounded to
\* nearest (ties to even, which is N), stays below N: the product falls
\* short of N by x * short * 2^-53, and half the spacing of the binary64
\* values below N is Pow2Ceil(N) * 2^-54.
FloatProductInt(x, m) ==
    LET num == x[1] * m.num
        den == x[2] * m.den
        whole == num \div den
    IN  IF /\ num % den = 0
           /\ whole > 0
           /\ 2 * x[1] * m.short[1] > Pow2Ceil(whole, 1) * x[2] * m.short[2]
        THEN whole - 1
        ELSE whole

\* lines 327-333 and 374-380: {...}.get(case_stage, 1.0)
StageMultiplier(stage) ==
    CASE stage = "filing" -> Float(1, 1, <<0, 1>>)
      [] stage = "discovery" -> Float(7, 10, <<2, 5>>)
      [] stage = "pre_trial" -> Float(2, 5, <<0, 1>>)
      [] stage = "trial" -> Float(1, 5, <<0, 1>>)
      [] stage = "post_trial" -> Float(1, 10, <<0, 1>>)
      [] OTHER -> Float(1, 1, <<0, 1>>)

\* lines 364-372: defaults.get(practice_area, 365)
DefaultDays(area) ==
    CASE area = "personal_injury" -> 365
      [] area = "corporate" -> 540
      [] area = "employment" -> 270
      [] area = "real_estate" -> 180
      [] area = "intellectual_property" -> 450
      [] OTHER -> 365

\* lines 404-409
MilestonePercents ==
    <<[name |-> "Discovery Completion", percent |-> Float(2, 5, <<0, 1>>)],
      [name |-> "Pre-Trial Motions", percent |-> Float(3, 5, <<1, 5>>)],
      [name |-> "Mediation/Settlement Conference",
       percent |-> Float(3, 4, <<0, 1>>)],
      [name |-> "Trial/Resolution", percent |-> Float(1, 1, <<0, 1>>)]>>

\* _generate_milestone_estimates(total_days), lines 400-418
GenerateMilestoneEstimates(total_days) ==
    [i \in DOMAIN MilestonePercents |->
        LET days == FloatProductInt(<<total_days, 1>>,
                                    MilestonePercents[i].percent)
        IN  [milestone |-> MilestonePercents[i].name,
             estimated_date |-> days,
             days_from_now |-> days]]

\* _get_default_timeline(practice_area, case_stage), lines 357-398
GetDefaultTimeline(area, stage) ==
    LET base_days == DefaultDays(area)
        adjusted_days == FloatProductInt(<<base_days, 1>>,
                                         StageMultiplier(stage))
    IN  [estimated_days |->
            [optimistic |-> FloatProductInt(<<adjusted_days, 1>>,
                                            Float(7, 10, <<2, 5>>)),
             expected |-> adjusted_days,
             pessimistic |-> FloatProductInt(<<adjusted_days, 1>>,
                                             Float(13, 10, <<0, 1>>))],
         based_on_cases |-> 0,
         confidence |-> "low - using default estimates",
         milestones |-> GenerateMilestoneEstimates(adjusted_days)]

\* _find_similar_cases(practice_area, ..., limit=100), lines 491-511: the
\* store holds the rows of the practice area in the order of the query
SimilarCases(store, limit) == SubSeq(store, 1, Min(Len(store), limit))

\* lines 303-308: the positive durations of the precedents with both dates
RECURSIVE ValidTimelines(_)
ValidTimelines(found) ==
    IF found = <<>> THEN <<>>
    ELSE LET precedent == Head(found)
             rest == ValidTimelines(Tail(found))
         IN  IF /\ precedent.filing_date # None
                /\ precedent.decision_date # None
                /\ precedent.decision_date[1] - precedent.filing_date[1] > 0
             THEN <<precedent.decision_date[1] - precedent.filing_date[1]>>
                  \o rest
             ELSE rest

\* lines 315-355: the dictionary returned when there are durations
TimelineFromDurations(durations, stage) ==
    LET sorted == Sorted(durations)
        stage_multiplier == StageMultiplier(stage)
        expected == FloatProductInt(Percentile(sorted, 50), stage_multiplier)
    IN  [estimated_days |->
            [optimistic |-> FloatProductInt(Percentile(sorted, 25),
                                            stage_multiplier),
             expected |-> expected,
             pessimistic |-> FloatProductInt(Percentile(sorted, 75),
                                             stage_multiplier)],
         based_on_cases |-> Len(durations),
         milestones |-> GenerateMilestoneEstimates(expected)]

\* precedents: without a date, decided on or before the filing day, and
\* with durations of 10, 90 and 365 days
TimelinePrecedents ==
    {[filing_date |-> None, decision_date |-> Some(90)],
     [filing_date |-> Some(0), decision_date |-> None],
     [filing_date |-> Some(20), decision_date |-> Some(20)],
     [filing_date |-> Some(100), decision_date |-> Some(40)],
     [filing_date |-> Some(30), decision_date |-> Some(40)],
     [filing_date |-> Some(0), decision_date |-> Some(90)],
     [filing_date |-> Some(0), decision_date |-> Some(365)]}

TimelineStores ==
    UNION {[1..n -> TimelinePrecedents] : n \in 0..MaxTimelinePrecedents}

\* the five stages of the multiplier table and one outside it
CaseStages ==
    {"filing", "discovery", "pre_trial", "trial", "post_trial", "appeal"}

\* two areas of the defaults table and one outside it
TimelineAreas == {"personal_injury", "real_estate", "maritime"}

NoTimeline == [returned |-> FALSE]

TimelineIdle ==
    /\ pcTimeline = "idle"
    /\ timeline_store = <<>>
    /\ timeline_area = ""
    /\ case_stage = ""
    /\ timelines = <<>>
    /\ timeline = NoTimeline

TimelineInit ==
    /\ pcTimeline = "start"
    /\ timeline_store \in TimelineStores
    /\ timeline_area \in TimelineAreas
    /\ case_stage \in CaseStages
    /\ timelines = <<>>
    /\ timeline = NoTimeline

\* lines 295-312: the query, the durations, the default path
CollectTimelines ==
    /\ pcTimeline = "start"
    /\ LET found == SimilarCases(timeline_store, 100)
           durations == ValidTimelines(found)
       IN  IF durations = <<>>
           THEN /\ timeline' = GetDefaultTimeline(timeline_area, case_stage)
                /\ pcTimeline' = "returned"
                /\ UNCHANGED timelines
           ELSE /\ timelines' = durations
                /\ pcTimeline' = "statistics"
                /\ UNCHANGED timeline
    /\ UNCHANGED <<timeline_store, timeline_area, case_stage,
                   otherThanTimeline>>

\* lines 315-355
ReturnTimeline ==
    /\ pcTimeline = "statistics"
    /\ timeline' = TimelineFromDurations(timelines, case_stage)
    /\ pcTimeline' = "returned"
    /\ UNCHANGED <<timeline_store, timeline_area, case_stage, timelines,
                   otherThanTimeline>>

TimelineNext == CollectTimelines \/ ReturnTimeline

-----------------------------------------------------------------------------
(***************************************************************************)
(* The singleton factories get_clause_extraction_service                   *)
(* (clause_extraction_service.py, lines 516-524) and get_citation_parser   *)
(* (legal_citation_parser.py, lines 443-451).                              *)
(*                                                                         *)
(* Both are plain functions without a lock: they test the module global,   *)
(* construct, assign the global and return the global.  A caller is a      *)
(* thread of the process; the interpreter may switch threads between any   *)
(* two of these steps (the constructors run Python code).  An instance is  *)
(* identified by its number in the order of construction.                  *)
(***************************************************************************)

MaxCallers == 2
MaxFactoryCalls == 2

Callers == 1..MaxCallers

Factories == {"get_clause_extraction_service", "get_citation_parser"}

FactoryIdle ==
    /\ pcFactory = <<>>
    /\ factory_of = <<>>
    /\ instances = <<>>
    /\ constructed = <<>>
    /\ created = <<>>
    /\ handed = <<>>

\* module import: both globals are None; no caller has called yet
FactoryInit ==
    /\ pcFactory = [c \in Callers |-> "ready"]
    /\ factory_of \in [Callers -> Factories]
    /\ instances = [f \in Factories |-> None]
    /\ constructed = [c \in Callers |-> None]
    /\ created = [f \in Factories |-> 0]
    /\ handed = [c \in Callers |-> <<>>]

\* a caller enters its factory
CallFactory(c) ==
    /\ pcFactory[c] = "ready"
    /\ Len(handed[c]) < MaxFactoryCalls
    /\ pcFactory' = [pcFactory EXCEPT ![c] = "check"]
    /\ UNCHANGED <<factory_of, instances, constructed, created, handed,
                   otherThanFactory>>

\* if _extraction_service_instance is None: / if _parser_instance is None:
CheckInstance(c) ==
    /\ pcFactory[c] = "check"
    /\ pcFactory' = [pcFactory EXCEPT ![c] =
                        IF instances[factory_of[c]] = None
                        THEN "create" ELSE "return"]
    /\ UNCHANGED <<factory_of, instances, constructed, created, handed,
                   otherThanFactory>>

\* ClauseExtractionService() / LegalCitationParser()
CreateInstance(c) ==
    /\ pcFactory[c] = "create"
    /\ created' = [created EXCEPT ![factory_of[c]] = @ + 1]
    /\ constructed' = [constructed EXCEPT
                          ![c] = Some(created[factory_of[c]] + 1)]
    /\ pcFactory' = [pcFactory EXCEPT ![c] = "store"]
    /\ UNCHANGED <<factory_of, instances, handed, otherThanFactory>>

\* the assignment to the global
StoreInstance(c) ==
    /\ pcFactory[c] = "store"
    /\ instances' = [instances EXCEPT ![factory_of[c]] = constructed[c]]
    /\ constructed' = [constructed EXCEPT ![c] = None]
    /\ pcFactory' = [pcFactory EXCEPT ![c] = "return"]
    /\ UNCHANGED <<factory_of, created, handed, otherThanFactory>>

\* return _extraction_service_instance / return _parser_instance
ReturnInstance(c) ==
    /\ pcFactory[c] = "return"
    /\ handed' = [handed EXCEPT
                     ![c] = Append(@, instances[factory_of[c]][1])]
    /\ pcFactory' = [pcFactory EXCEPT ![c] = "ready"]
    /\ UNCHANGED <<factory_of, instances, constructed, created,
                   otherThanFactory>>

FactoryNext ==
    \E c \in Callers :
        \/ CallFactory(c)
        \/ CheckInstance(c)
        \/ CreateInstance(c)
        \/ StoreInstance(c)
        \/ ReturnInstance(c)

-----------------------------------------------------------------------------
(* core/external_apis.py: CourtListenerClient.search_cases and its cache   *)
(*                                                                         *)
(* datetime.now() is the clock, in hours.  A result list is modelled by    *)
(* the request it answers: the parameters sent to /search/, the limit it   *)
(* was cut to, the hour it was fetched and the number of its items.        *)

MaxSearches == 2         \* calls of search_cases on one client
MaxClockHours == 36      \* the clock stops here
ClockStepHours == 12     \* the clock moves in steps of this many hours
CacheTtlHours == 24      \* self._cache_ttl = timedelta(hours=24)

\* argument tuples of search_cases: one of them, and others that differ
\* from it in a single argument
BaseSearch ==
    [query |-> "breach", jurisdiction |-> NoneVal, court |-> NoneVal,
     date_from |-> None, date_to |-> None, limit |-> 20]

SearchArgs ==
    {BaseSearch,
     [BaseSearch EXCEPT !.query = "fraud"],
     [BaseSearch EXCEPT !.jurisdiction = "federal"],
     [BaseSearch EXCEPT !.date_from = Some(20200101)],
     [BaseSearch EXCEPT !.date_to = Some(20211231)],
     [BaseSearch EXCEPT !.limit = 5]}

\* what GET /search/ does: raise_for_status or the connection raises, or
\* the body carries this many results
SearchResponses ==
    {[ok |-> FALSE, count |-> 0], [ok |-> TRUE, count |-> 0],
     [ok |-> TRUE, count |-> 7]}

\* line 122: f"search:{query}:{jurisdiction}:{court}:{limit}"
CacheKey(args) ==
    "search:" \o args.query \o ":" \o args.jurisdiction \o ":" \o args.court
        \o ":" \o ToString(args.limit)

\* lines 128-142: the parameters of the request; filed_after and
\* filed_before carry the day of date_from and date_to
SearchParams(args) ==
    [q |-> args.query,
     court_jurisdiction |-> IF Truthy(args.jurisdiction) THEN args.jurisdiction
                            ELSE NoneVal,
     court |-> IF Truthy(args.court) THEN args.court ELSE NoneVal,
     filed_after |-> args.date_from,
     filed_before |-> args.date_to]

\* lines 148-162: the results built from the first `limit` items
SearchResults(args, count, now) ==
    [params |-> SearchParams(args), limit |-> args.limit,
     fetched_at |-> now, count |-> Min(count, args.limit)]

\* _get_cached, lines 86-89: the entry is there and younger than the TTL
CacheValid(cache, cache_key, now) ==
    /\ cache_key \in DOMAIN cache
    /\ now - cache[cache_key].timestamp < CacheTtlHours

\* _get_cached: the data returned, or None
GetCached(cache, cache_key, now) ==
    IF CacheValid(cache, cache_key, now) THEN Some(cache[cache_key].data) ELSE None

\* _get_cached, lines 91-92: the cache after the lookup, an expired entry
\* deleted
CacheAfterLookup(cache, cache_key, now) ==
    IF cache_key \in DOMAIN cache /\ ~CacheValid(cache, cache_key, now)
    THEN [k \in DOMAIN cache \ {cache_key} |-> cache[k]]
    ELSE cache

\* _set_cache
SetCache(cache, cache_key, data, now) ==
    [k \in DOMAIN cache \cup {cache_key} |->
        IF k = cache_key THEN [data |-> data, timestamp |-> now] ELSE cache[k]]

\* `if cached:` a list that is not empty
CachedTruthy(cached) == cached # None /\ cached[1].count > 0

NoSearch == [query |-> NoneVal]
EmptyCache == [k \in {} |-> NoneVal]

SearchIdle ==
    /\ search_cache = EmptyCache
    /\ clock = 0
    /\ searches = 0
    /\ search_call = NoSearch
    /\ search_returned = [kind |-> "none", at |-> 0, data |-> None]

\* a client after __init__ (lines 71-72)
SearchInit == SearchIdle

\* search_cases(query, jurisdiction, court, date_from, date_to, limit)
\* against a service that answers with `response`
CourtListenerSearchCases(args, response) ==
    /\ searches < MaxSearches
    /\ searches' = searches + 1
    /\ search_call' = args
    /\ LET cache_key == CacheKey(args)
           cached == GetCached(search_cache, cache_key, clock)
           looked == CacheAfterLookup(search_cache, cache_key, clock)
       IN  IF CachedTruthy(cached)
           THEN /\ search_returned' = [kind |-> "cached", at |-> clock, data |-> cached]
                /\ search_cache' = looked
           ELSE IF ~response.ok
           THEN /\ search_returned' = [kind |-> "failed", at |-> clock, data |-> None]
                /\ search_cache' = looked
           ELSE LET results == SearchResults(args, response.count, clock)
                IN  /\ search_cache' = SetCache(looked, cache_key, results, clock)
                    /\ search_returned' =
                          [kind |-> "fetched", at |-> clock, data |-> Some(results)]
    /\ UNCHANGED <<clock, otherThanSearch>>

\* time passes between two calls
AdvanceClock ==
    /\ clock + ClockStepHours <= MaxClockHours
    /\ clock' = clock + ClockStepHours
    /\ UNCHANGED <<search_cache, searches, search_call, search_returned,
                   otherThanSearch>>

SearchNext ==
    \/ \E args \in SearchArgs, response \in SearchResponses :
          CourtListenerSearchCases(args, response)
    \/ AdvanceClock

-----------------------------------------------------------------------------
(* enhanced_document_processing.py: process_legal_document                 *)
(*                                                                         *)
(* One action per step of the method; a step ends at the commit that       *)
(* follows it.  analysis_completeness is a fraction <<points, 5>>.         *)

MaxFound == 1            \* clauses, citations and precedents a step finds

\* the document objects passed in: the declared Document class, on which
\* writing clause_extraction_complete raises, and objects carrying the
\* attributes the method writes, analysed before or not
ProcessDocuments ==
    {[kind |-> "declared", practice_area |-> AttributeMissing,
      clause_extraction_complete |-> FALSE, risk_analysis_complete |-> FALSE,
      precedent_research_complete |-> FALSE, analysis_completeness |-> None]}
    \cup {[kind |-> "extended", practice_area |-> a,
           clause_extraction_complete |-> FALSE, risk_analysis_complete |-> r,
           precedent_research_complete |-> FALSE, analysis_completeness |-> None] :
             a \in {NoneVal, "Corporate"}, r \in BOOLEAN}

\* lines 56-60: results before the first step
NewResults ==
    [status |-> "running", steps_completed |-> <<>>, clauses_extracted |-> None,
     risk_analysis |-> NoneVal, analysis_completeness |-> None]

\* lines 124-129: the dictionary returned by the except branch
ErrorResults(results) ==
    [status |-> "error", steps_completed |-> results.steps_completed,
     clauses_extracted |-> None, risk_analysis |-> NoneVal,
     analysis_completeness |-> None]

\* _analyze_risk: the report of analyze_document_risk, or the placeholder
\* of the except branch (lines 181-187)
AnalyzeRisk(outcome) ==
    IF outcome = "returned" THEN "report" ELSE "placeholder"

\* _calculate_completeness: the points of the steps completed, of 5
CalculateCompleteness(results) ==
    LET done(step) == \E i \in DOMAIN results.steps_completed :
                          results.steps_completed[i] = step
    IN  <<(IF done("clause_extraction") THEN 1 ELSE 0)
          + (IF done("risk_analysis") THEN 2 ELSE 0)
          + (IF done("citation_extraction") THEN 1 ELSE 0)
          + (IF done("precedent_search") THEN 1 ELSE 0), 5>>

ProcessIdle ==
    /\ pcProcess = "idle"
    /\ process_input = [enable_precedent_search |-> FALSE]
    /\ process_document = [kind |-> "none"]
    /\ process_results = NewResults
    /\ risk_outcome = "none"

ProcessInit ==
    /\ pcProcess = "start"
    /\ process_input \in [document : ProcessDocuments,
                          enable_precedent_search : BOOLEAN]
    /\ process_document = process_input.document
    /\ process_results = NewResults
    /\ risk_outcome = "none"

\* lines 62-71, step 1: _extract_clauses returns a list (empty when it
\* caught an exception); the step is recorded, the flag written and
\* committed.  The write raises on the declared Document class, the commit
\* may fail.
ExtractClausesStep ==
    /\ pcProcess = "start"
    /\ \E found \in 0..MaxFound, committed \in BOOLEAN :
          LET results == [process_results EXCEPT
                             !.clauses_extracted = Some(found),
                             !.steps_completed = Append(@, "clause_extraction")]
          IN  IF process_document.kind = "declared"
              THEN /\ process_results' = ErrorResults(results)
                   /\ pcProcess' = "returned"
                   /\ UNCHANGED process_document
              ELSE /\ process_document' =
                         [process_document EXCEPT !.clause_extraction_complete = TRUE]
                   /\ IF committed
                      THEN process_results' = results /\ pcProcess' = "risk"
                      ELSE /\ process_results' = ErrorResults(results)
                           /\ pcProcess' = "returned"
    /\ UNCHANGED <<process_input, risk_outcome, otherThanProcess>>

\* lines 73-86, step 2: _analyze_risk, whose call of
\* analyze_document_risk returns or raises; then the step is recorded and
\* the flag written and committed
AnalyzeRiskStep ==
    /\ pcProcess = "risk"
    /\ \E outcome \in {"returned", "raised"}, committed \in BOOLEAN :
          LET results == [process_results EXCEPT
                             !.risk_analysis = AnalyzeRisk(outcome),
                             !.steps_completed = Append(@, "risk_analysis")]
          IN  /\ risk_outcome' = outcome
              /\ process_document' =
                    [process_document EXCEPT !.risk_analysis_complete = TRUE]
              /\ IF committed
                 THEN process_results' = results /\ pcProcess' = "citations"
                 ELSE /\ process_results' = ErrorResults(results)
                      /\ pcProcess' = "returned"
    /\ UNCHANGED <<process_input, otherThanProcess>>

\* lines 88-95, step 3: _extract_citations returns a list
ExtractCitationsStep ==
    /\ pcProcess = "citations"
    /\ process_results' = [process_results EXCEPT
                              !.steps_completed = Append(@, "citation_extraction")]
    /\ pcProcess' = IF /\ process_input.enable_precedent_search
                       /\ Truthy(process_document.practice_area)
                    THEN "precedents" ELSE "completeness"
    /\ UNCHANGED <<process_input, process_document, risk_outcome, otherThanProcess>>

\* lines 96-108, step 4: _find_precedents returns a list; the step is
\* recorded and the document updated and committed
FindPrecedentsStep ==
    /\ pcProcess = "precedents"
    /\ \E committed \in BOOLEAN :
          LET results == [process_results EXCEPT
                             !.steps_completed = Append(@, "precedent_search")]
          IN  /\ process_document' =
                    [process_document EXCEPT !.precedent_research_complete = TRUE]
              /\ IF committed
                 THEN process_results' = results /\ pcProcess' = "completeness"
                 ELSE /\ process_results' = ErrorResults(results)
                      /\ pcProcess' = "returned"
    /\ UNCHANGED <<process_input, risk_outcome, otherThanProcess>>

\* lines 110-120, step 5: the completeness, and the return
CompletenessStep ==
    /\ pcProcess = "completeness"
    /\ LET completeness == CalculateCompleteness(process_results)
       IN  /\ process_document' =
                 [process_document EXCEPT !.analysis_completeness = Some(completeness)]
           /\ process_results' =
                 [process_results EXCEPT !.analysis_completeness = Some(completeness),
                                         !.status = "success"]
    /\ pcProcess' = "returned"
    /\ UNCHANGED <<process_input, risk_outcome, otherThanProcess>>

ProcessNext ==
    \/ ExtractClausesStep
    \/ AnalyzeRiskStep
    \/ ExtractCitationsStep
    \/ FindPrecedentsStep
    \/ CompletenessStep

-----------------------------------------------------------------------------
(* Specifications: one per part of the pipeline                            *)

InitPredict == PredictInit /\ ClauseIdle /\ RiskIdle /\ ExtractIdle /\ CitationIdle /\ RankIdle /\ SettleIdle /\ TimelineIdle /\ FactoryIdle /\ SearchIdle /\ ProcessIdle
SpecPredict == InitPredict /\ [][PredictNext]_vars

InitClause == ClauseInit /\ PredictIdle /\ RiskIdle /\ ExtractIdle /\ CitationIdle /\ RankIdle /\ SettleIdle /\ TimelineIdle /\ FactoryIdle /\ SearchIdle /\ ProcessIdle
SpecClause == InitClause /\ [][ClauseNext]_vars

InitRisk == RiskInit /\ PredictIdle /\ ClauseIdle /\ ExtractIdle /\ CitationIdle /\ RankIdle /\ SettleIdle /\ TimelineIdle /\ FactoryIdle /\ SearchIdle /\ ProcessIdle
SpecRisk == InitRisk /\ [][RiskNext]_vars

InitExtract == ExtractInit /\ PredictIdle /\ ClauseIdle /\ RiskIdle /\ CitationIdle /\ RankIdle /\ SettleIdle /\ TimelineIdle /\ FactoryIdle /\ SearchIdle /\ ProcessIdle
SpecExtract == InitExtract /\ [][ExtractNext]_vars

InitCitation ==
    CitationInit /\ PredictIdle /\ ClauseIdle /\ RiskIdle /\ ExtractIdle /\ RankIdle /\ SettleIdle /\ TimelineIdle /\ FactoryIdle /\ SearchIdle /\ ProcessIdle
SpecCitation == InitCitation /\ [][CitationNext]_vars

InitRank ==
    RankInit /\ PredictIdle /\ ClauseIdle /\ RiskIdle /\ ExtractIdle /\ CitationIdle /\ SettleIdle /\ TimelineIdle /\ FactoryIdle /\ SearchIdle /\ ProcessIdle
SpecRank == InitRank /\ [][RankNext]_vars

InitSettle ==
    SettleInit /\ PredictIdle /\ ClauseIdle /\ RiskIdle /\ ExtractIdle /\ CitationIdle /\ RankIdle /\ TimelineIdle /\ FactoryIdle /\ SearchIdle /\ ProcessIdle
SpecSettle == InitSettle /\ [][SettleNext]_vars

InitTimeline ==
    TimelineInit /\ PredictIdle /\ ClauseIdle /\ RiskIdle /\ ExtractIdle /\ CitationIdle /\ RankIdle /\ SettleIdle /\ FactoryIdle /\ SearchIdle /\ ProcessIdle
SpecTimeline == InitTimeline /\ [][TimelineNext]_vars

InitFactory ==
    FactoryInit /\ PredictIdle /\ ClauseIdle /\ RiskIdle /\ ExtractIdle /\ CitationIdle /\ RankIdle /\ SettleIdle /\ TimelineIdle /\ SearchIdle /\ ProcessIdle
SpecFactory == InitFactory /\ [][FactoryNext]_vars

InitSearch ==
    SearchInit /\ PredictIdle /\ ClauseIdle /\ RiskIdle /\ ExtractIdle /\ CitationIdle /\ RankIdle /\ SettleIdle /\ TimelineIdle /\ FactoryIdle /\ ProcessIdle
SpecSearch == InitSearch /\ [][SearchNext]_vars

InitProcess ==
    ProcessInit /\ PredictIdle /\ ClauseIdle /\ RiskIdle /\ ExtractIdle /\ CitationIdle /\ RankIdle /\ SettleIdle /\ TimelineIdle /\ FactoryIdle /\ SearchIdle
SpecProcess == InitProcess /\ [][ProcessNext]_vars

-----------------------------------------------------------------------------
(* Claims about predict_litigation_outcome                                 *)

\* C1: the four outcome_probabilities returned by predict_litigation_outcome
\* sum to 1.0 within 1e-6 (exactly 1000 thousandths), for every precedent
\* population and every stored risk score or none.
OutcomeProbabilitiesSumToOne ==
    pcPredict = "returned" => StatsTotal(outcome_stats) = 1000

-----------------------------------------------------------------------------
(* Claims about _analyze_clause_risk                                       *)

\* the level the fixed thresholds assign to a score in hundredths:
\* critical >= 8, high >= 6, medium >= 4, low >= 2, otherwise minimal
ThresholdLevel(score) ==
    IF score >= 800 THEN "critical"
    ELSE IF score >= 600 THEN "high"
    ELSE IF score >= 400 THEN "medium"
    ELSE IF score >= 200 THEN "low"
    ELSE "minimal"

\* C3: in every clause analysis returned by _analyze_clause_risk the
\* risk_level is the level the fixed thresholds assign to the returned
\* (rounded) risk_score, so equal reported scores never carry different levels.
RiskLevelMatchesReportedScore ==
    pcClause = "returned" =>
        analysis.risk_level = ThresholdLevel(analysis.risk_score)

\* C3 witness: an analysis whose reported score was changed by the rounding
\* and whose level is high
WitnessRoundedHighClause ==
    /\ pcClause = "returned"
    /\ analysis.risk_level = "high"
    /\ analysis.risk_score * clause.confidence[2]
          # TotalRisk(clause) * 10 * clause.confidence[1]

\* baseRiskWeight of the specification (section 4.3), in tenths, with the
\* default 3.0 for a type without an entry
SpecBaseRiskWeight(t) ==
    CASE t = "indemnification" -> 85 [] t = "intellectual_property" -> 80
      [] t = "non_compete" -> 75 [] t = "liability_limitation" -> 70
      [] t = "change_of_control" -> 70 [] t = "arbitration" -> 65
      [] t = "data_protection" -> 75 [] t = "automatic_renewal" -> 60
      [] t = "payment_terms" -> 60 [] t = "termination" -> 55
      [] t = "warranty" -> 55 [] t = "confidentiality" -> 50
      [] t = "dispute_resolution" -> 45 [] t = "assignment" -> 40
      [] t = "force_majeure" -> 40 [] t = "governing_law" -> 35
      [] t = "amendment" -> 30 [] t = "notice" -> 20
      [] t = "severability" -> 15 [] t = "entire_agreement" -> 15
      [] OTHER -> 30

\* min(baseRiskWeight[type] + 0.5 * |riskIndicators|, 10.0) * confidence as
\* the fraction FormulaNum(c) / c.confidence[2] hundredths
FormulaNum(c) ==
    Min(SpecBaseRiskWeight(c.clause_type) + 5 * Len(c.risk_indicators), 100)
        * 10 * c.confidence[1]

\* C4 as stated: the clause risk score equals
\* min(baseRiskWeight[type] + 0.5 * indicators, 10.0) * confidence and lies
\* in [0,10].
ClauseRiskScoreEqualsFormula ==
    pcClause = "returned" =>
        /\ analysis.risk_score * clause.confidence[2] = FormulaNum(clause)
        /\ analysis.risk_score \in 0..1000

\* C4 amended: the reported clause risk score is that product rounded to two
\* decimals (it differs from the product by at most 0.005) and lies in [0,10].
ClauseRiskScoreIsRoundedFormula ==
    pcClause = "returned" =>
        /\ 2 * Abs(analysis.risk_score * clause.confidence[2] - FormulaNum(clause))
              <= clause.confidence[2]
        /\ analysis.risk_score \in 0..1000

\* C4 witness: a clause whose indicators push the sum over the cap of 10.0
\* and whose confidence is below 1
WitnessCappedClause ==
    /\ pcClause = "returned"
    /\ BaseRisk(clause.clause_type) + 5 * Len(clause.risk_indicators) > 100
    /\ clause.confidence[1] < clause.confidence[2]

-----------------------------------------------------------------------------
(* Claims about analyze_document_risk                                      *)

\* C5: in every returned analysis the clause analyses fall into exactly one
\* of the buckets high (critical or high), medium, low (low or minimal);
\* the three counts sum to total_clauses_analyzed and the high count equals
\* high_risk_clause_count.
HistogramPartitionsClauses ==
    result.returned =>
        LET h == RiskLevelHistogram(result.clauses)
        IN  /\ h.high + h.medium + h.low = result.total_clauses_analyzed
            /\ h.high = result.high_risk_clause_count
            /\ \A i \in DOMAIN result.clauses :
                  result.clauses[i].risk_level \in
                      {"critical", "high", "medium", "low", "minimal"}

\* a returned analysis with a clause at each end of the scale
WitnessMinimalAndCriticalClause ==
    /\ result.returned
    /\ \E i, j \in DOMAIN result.clauses :
          /\ result.clauses[i].risk_level = "minimal"
          /\ result.clauses[j].risk_level = "critical"

\* C6 as stated: with no clause extracted the analysis returns score 0,
\* level minimal and an empty recommendations list.
ZeroClausesEmptyRecommendations ==
    (result.returned /\ result.total_clauses_analyzed = 0) =>
        /\ result.overall_risk_score = 0
        /\ result.overall_risk_level = "minimal"
        /\ result.recommendations = <<>>

\* C6 amended: with no clause extracted the analysis returns score 0, level
\* minimal and exactly one recommendation, of priority low and category
\* general.
ZeroClausesStandardReviewOnly ==
    (result.returned /\ result.total_clauses_analyzed = 0) =>
        /\ result.overall_risk_score = 0
        /\ result.overall_risk_level = "minimal"
        /\ Len(result.recommendations) = 1
        /\ result.recommendations[1].priority = "low"
        /\ result.recommendations[1].category = "general"

WitnessZeroClauses ==
    /\ result.returned
    /\ document_clauses = <<>>
    /\ result.total_clauses_analyzed = 0

\* no rule of the recommendation table applies to the analysed clauses
NoRuleFired ==
    /\ \A i \in DOMAIN clause_analyses :
          clause_analyses[i].risk_level \notin {"critical", "high"}
    /\ \A i \in DOMAIN clauses :
          clauses[i].clause_type \notin {"automatic_renewal", "data_protection"}
    /\ \A i \in DOMAIN clause_analyses :
          ~(/\ clause_analyses[i].clause_type = "liability_limitation"
            /\ \E k \in DOMAIN clause_analyses[i].risk_indicators :
                  clause_analyses[i].risk_indicators[k] = "no limit")
    /\ \A i \in DOMAIN clause_analyses :
          ~(/\ clause_analyses[i].clause_type = "non_compete"
            /\ \E k \in DOMAIN clause_analyses[i].risk_indicators :
                  clause_analyses[i].risk_indicators[k] = "broad scope")

IsStandardReview(r) == r.priority = "low" /\ r.category = "general"

\* C7: the list _generate_recommendations returns is never empty, and the
\* low-priority standard review is in it exactly when no rule fired, and
\* then it is the only entry.
RecommendationsNeverEmpty ==
    pcRisk \in {"save", "returned"} =>
        LET standard == {i \in DOMAIN recommendations : IsStandardReview(recommendations[i])}
        IN  /\ recommendations # <<>>
            /\ (standard # {}) <=> NoRuleFired
            /\ standard # {} => Len(recommendations) = 1

\* the standard review returned for a document that has clauses
WitnessStandardReviewWithClauses ==
    /\ pcRisk = "returned"
    /\ clauses # <<>>
    /\ \E i \in DOMAIN recommendations : IsStandardReview(recommendations[i])

\* the result the same analysis returns when run with include_precedents
\* false, but for the precedents
SameAsWithoutPrecedents(r) ==
    LET analyses == [i \in DOMAIN document_clauses |->
                         AnalyzeClauseRisk(document_clauses[i])]
        high == SelectHigh(analyses)
        avg == AverageRisk(analyses, high)
    IN  /\ r.overall_risk_score \in RoundChoices(avg[1], avg[2])
        /\ r.overall_risk_level = CalculateRiskLevel(avg[1], avg[2])
        /\ r.clauses = analyses
        /\ r.recommendations = GenerateRecommendations(document_clauses, analyses, high)

\* C8: when search_cases or analyze_case_relevance raises, the call does
\* not raise; the result it returns has no precedents, and its score,
\* level, clause analyses and recommendations are those of the analysis
\* run with include_precedents false.
PrecedentFailureDegrades ==
    precedent_error # "" =>
        /\ pcRisk # "raised"
        /\ pcRisk = "returned" =>
              /\ result.precedents = <<>>
              /\ SameAsWithoutPrecedents(result)

\* a call returned after analyze_case_relevance raised on a found case
WitnessRelevanceRaised ==
    /\ pcRisk = "returned"
    /\ precedent_error = "analyze_case_relevance"
    /\ cases # <<>>

\* C9: when a step of _save_risk_assessment fails, the call does not raise;
\* it returns the score, level, clause analyses and recommendations it has
\* computed, with risk_assessment_id None.
PersistenceFailureContained ==
    save_error # "" =>
        /\ pcRisk # "raised"
        /\ pcRisk = "returned" =>
              /\ result.risk_assessment_id = None
              /\ result.overall_risk_score \in RoundChoices(average_risk[1], average_risk[2])
              /\ result.overall_risk_level = overall_risk_level
              /\ result.clauses = clause_analyses
              /\ result.total_clauses_analyzed = Len(document_clauses)
              /\ result.recommendations = recommendations
              /\ recommendations # <<>>

\* a call returned after session.add failed on a clause row
WitnessSessionAddFailed ==
    /\ pcRisk = "returned"
    /\ save_error = "session.add"
    /\ clauses # <<>>

-----------------------------------------------------------------------------
(* Claims about the shared ClauseExtractionService                         *)

\* what a call returns when no other call runs
AloneResult(r) ==
    IF r.op = "extract_clauses"
    THEN ExtractClauses(r.document_text, r.min_confidence, SectionPattern, CLAUSE_PATTERNS)
    ELSE ClassifyClause(r.clause_text, CLAUSE_PATTERNS)

\* the same for every call a client may make
AloneResults == [r \in Requests |-> AloneResult(r)]

\* C10: however extract_clauses and classify_clause calls on the shared
\* instance interleave, each returns what it returns run alone, so calls
\* with equal arguments return equal values (offsets, types, confidences);
\* the instance's section_pattern and the class's CLAUSE_PATTERNS keep the
\* values they had after construction.
InterleavedCallsReturnAloneResults ==
    /\ service = [section_pattern |-> SectionPattern]
    /\ class_patterns = CLAUSE_PATTERNS
    /\ \A c \in Calls :
          pcCall[c] = "returned" => returned[c] = AloneResults[requests[c]]
    /\ \A c1, c2 \in Calls :
          (/\ pcCall[c1] = "returned" /\ pcCall[c2] = "returned"
           /\ requests[c1] = requests[c2]) => returned[c1] = returned[c2]

\* an extraction that returned clauses while another extraction of a
\* different text was between two sections of its loop
WitnessCallReturnedInsideAnotherLoop ==
    \E c1, c2 \in Calls :
        /\ pcCall[c1] = "sections"
        /\ frames[c1].sections # <<>>
        /\ frames[c1].clauses # <<>>
        /\ pcCall[c2] = "returned"
        /\ requests[c2].op = "extract_clauses"
        /\ requests[c2].document_text # requests[c1].document_text
        /\ returned[c2] # <<>>

-----------------------------------------------------------------------------
(* Claims about the offsets and the confidence filter of extract_clauses   *)

\* document_text[s:e] as the parts of the blocks it covers: for each block
\* the slice touches, the block and the character range within the block
SlicePieces(text, s, e) ==
    LET Begin(i) == BlockStart(text, i)
        End(i) == BlockStart(text, i) + BlockLen(text[i])
        Touches(i) == Max(s, Begin(i)) < Min(e, End(i))
        touched == SelectSeq([i \in DOMAIN text |-> i], Touches)
    IN  [j \in DOMAIN touched |->
            [block |-> touched[j],
             from |-> Max(s, Begin(touched[j])) - Begin(touched[j]),
             to |-> Min(e, End(touched[j])) - Begin(touched[j])]]

\* document_text[s:e] == " ".join(tokens): the slice is the text of one
\* paragraph block with these tokens, from its first character to the last
\* character before its blank line.  (The paragraphs hold no newline, and
\* a slice that starts elsewhere holds one or starts inside another word.)
SliceEquals(text, s, e, tokens) ==
    LET pieces == SlicePieces(text, s, e)
    IN  /\ Len(pieces) = 1
        /\ text[pieces[1].block].kind = "para"
        /\ text[pieces[1].block].tokens = tokens
        /\ pieces[1].from = 0
        /\ pieces[1].to = JoinLen(tokens)

\* C11: every clause returned by extract_clauses has
\* 0 <= start_position <= end_position <= len(text), and the slice
\* text[start_position:end_position] of the document equals clause_text.
ClauseOffsetsSliceOriginalText ==
    \A c \in Calls :
        (pcCall[c] = "returned" /\ requests[c].op = "extract_clauses") =>
            \A i \in DOMAIN returned[c] :
                LET cl == returned[c][i]
                    text == requests[c].document_text
                IN  /\ 0 <= cl.start_position
                    /\ cl.start_position <= cl.end_position
                    /\ cl.end_position <= TextLen(text)
                    /\ SliceEquals(text, cl.start_position, cl.end_position,
                                   cl.clause_text)

RECURSIVE IsSubList(_, _)
\* a is b with some elements left out, the others in the same order
IsSubList(a, b) ==
    IF a = <<>> THEN TRUE
    ELSE IF b = <<>> THEN FALSE
    ELSE IF Head(a) = Head(b) THEN IsSubList(Tail(a), Tail(b))
    ELSE IsSubList(a, Tail(b))

\* m1 <= m2 for thresholds given as fractions
FractionAtMost(a, b) == a[1] * b[2] <= b[1] * a[2]

\* C12: every clause returned by extract_clauses(text, m) has confidence
\* >= m, and of two calls on the same text the one with the higher
\* threshold returns a sub-list (same clauses, same order) of the other's
\* result.
ThresholdFiltersMonotonically ==
    /\ \A c \in Calls :
          (pcCall[c] = "returned" /\ requests[c].op = "extract_clauses") =>
              \A i \in DOMAIN returned[c] :
                  FractionAtMost(requests[c].min_confidence, returned[c][i].confidence)
    /\ \A c1, c2 \in Calls :
          (/\ pcCall[c1] = "returned" /\ requests[c1].op = "extract_clauses"
           /\ pcCall[c2] = "returned" /\ requests[c2].op = "extract_clauses"
           /\ requests[c1].document_text = requests[c2].document_text
           /\ FractionAtMost(requests[c1].min_confidence, requests[c2].min_confidence))
          => IsSubList(returned[c2], returned[c1])

\* two extractions of one text returned, the one with the higher threshold
\* a non-empty result strictly shorter than the other's
WitnessHigherThresholdDroppedClause ==
    \E c1, c2 \in Calls :
        /\ pcCall[c1] = "returned" /\ requests[c1].op = "extract_clauses"
        /\ pcCall[c2] = "returned" /\ requests[c2].op = "extract_clauses"
        /\ requests[c1].document_text = requests[c2].document_text
        /\ FractionGreater(requests[c2].min_confidence, requests[c1].min_confidence)
        /\ returned[c2] # <<>>
        /\ Len(returned[c2]) < Len(returned[c1])

-----------------------------------------------------------------------------
(* Claims about LegalCitationParser                                        *)

\* C13: parse_citation never discards its input: for a text VOLUME
\* REPORTER PAGE whose reporter is in no reporter table it returns a
\* citation with is_valid false and confidence 0.3 that carries the raw
\* text and the volume, reporter and page tokens; for a text matching no
\* pattern it returns a citation of type unknown with is_valid false.
UnrecognisedReporterKeepsTokens ==
    pcCite = "parsed" =>
        LET found == SearchCase(input_text, 1)
        IN  /\ (found # None /\ found[1].reporter \notin DOMAIN all_reporters) =>
                  /\ parsed_citation.is_valid = FALSE
                  /\ parsed_citation.confidence = 30
                  /\ parsed_citation.raw_citation = input_text
                  /\ parsed_citation.volume = found[1].volume
                  /\ parsed_citation.reporter = found[1].reporter
                  /\ parsed_citation.page = found[1].page
            /\ (found = None /\ ParseStatute(input_text) = None) =>
                  /\ parsed_citation.citation_type = "unknown"
                  /\ parsed_citation.is_valid = FALSE
                  /\ parsed_citation.raw_citation = input_text

\* number, recognised reporter, number at tokens i, i+1, i+2 of the text
TripleAt(text, i) ==
    /\ i + 2 <= Len(text)
    /\ text[i].kind = "num" /\ ~text[i].comma
    /\ text[i + 1].kind = "word" /\ ~text[i + 1].comma
    /\ text[i + 1].text \in DOMAIN all_reporters
    /\ text[i + 2].kind = "num"

RECURSIVE TriplesFrom(_, _, _)
\* the distinct (volume, reporter, page) triples of the text from token i
\* on, in order of first occurrence
TriplesFrom(text, i, seen) ==
    IF i > Len(text) THEN <<>>
    ELSE LET triple == <<text[i].text, text[i + 1].text, text[i + 2].text>>
         IN  IF TripleAt(text, i) /\ triple \notin seen
             THEN <<triple>> \o TriplesFrom(text, i + 1, seen \cup {triple})
             ELSE TriplesFrom(text, i + 1, seen)

\* C14: extract_citations_from_text returns each distinct (volume,
\* reporter, page) triple of the text whose reporter is recognised exactly
\* once, in order of first occurrence, so no two returned citations share
\* a triple; every returned citation passes validate_citation.
ExtractedTriplesDistinctInTextOrder ==
    pcCite = "extracted" =>
        /\ [i \in DOMAIN citations |->
               <<citations[i].volume, citations[i].reporter, citations[i].page>>]
           = TriplesFrom(input_text, 1, {})
        /\ \A i \in DOMAIN citations : ValidateCitation(citations[i])

IsCase(citation) == citation.citation_type \in {"federal_case", "state_case"}

\* the formatted text holds the token
HasToken(tokens, kind, text) ==
    \E i \in DOMAIN tokens : tokens[i].kind = kind /\ tokens[i].text = text

\* the formatted text holds the year in a parenthetical
HasYear(tokens, year) ==
    \E i \in DOMAIN tokens : tokens[i].kind \in {"year", "court"} /\ tokens[i].year = year

\* C15: for a text parse_citation parses as a valid case citation, the
\* Bluebook format holds the parsed volume, reporter, page and (when
\* present) year, and parsing the formatted text again yields the same
\* volume, reporter, page, pinpoint, year and court.
BluebookRoundTrip ==
    (pcCite = "reparsed" /\ parsed_citation.is_valid /\ IsCase(parsed_citation)) =>
        /\ HasToken(formatted, "num", parsed_citation.volume)
        /\ HasToken(formatted, "word", parsed_citation.reporter)
        /\ HasToken(formatted, "num", parsed_citation.page)
        /\ parsed_citation.year # NoneVal => HasYear(formatted, parsed_citation.year)
        /\ reparsed.is_valid
        /\ reparsed.volume = parsed_citation.volume
        /\ reparsed.reporter = parsed_citation.reporter
        /\ reparsed.page = parsed_citation.page
        /\ reparsed.pinpoint = parsed_citation.pinpoint
        /\ reparsed.year = parsed_citation.year
        /\ reparsed.court = parsed_citation.court

\* a citation with case name, comma, pinpoint and court was formatted
\* into a different text and parsed again
WitnessReformattedCitationReparsed ==
    /\ pcCite = "reparsed"
    /\ parsed_citation.is_valid /\ IsCase(parsed_citation)
    /\ parsed_citation.pinpoint # NoneVal
    /\ parsed_citation.court # NoneVal
    /\ parsed_citation.case_name # None
    /\ formatted # input_text

-----------------------------------------------------------------------------
(* Claims about CaseRankingService                                         *)

\* position of a case in the candidate list passed in
InputPosition(case) ==
    CHOOSE i \in DOMAIN rank_input.cases : rank_input.cases[i] = case

\* C16: rank_cases_by_relevance returns a permutation of the candidate
\* list in which final_score is non-increasing, the ranks are 1..n in list
\* order, and candidates with equal final_score keep their input order.
RankingIsStableDescendingPermutation ==
    pcRank = "returned" =>
        /\ Len(ranked) = Len(rank_input.cases)
        /\ \A i \in DOMAIN rank_input.cases :
              \E j \in DOMAIN ranked : ranked[j].case = rank_input.cases[i]
        /\ \A j \in DOMAIN ranked : ranked[j].rank = j
        /\ \A j, k \in DOMAIN ranked :
              j < k =>
                  /\ ranked[j].final_score >= ranked[k].final_score
                  /\ ranked[j].final_score = ranked[k].final_score =>
                        InputPosition(ranked[j].case) < InputPosition(ranked[k].case)

\* a returned ranking in which two candidates tie and a candidate that
\* came later in the input is ranked above both
WitnessTieBelowLaterCandidate ==
    /\ pcRank = "returned"
    /\ Len(ranked) = 3
    /\ ranked[2].final_score = ranked[3].final_score
    /\ ranked[1].final_score > ranked[2].final_score
    /\ InputPosition(ranked[1].case) = 3

-----------------------------------------------------------------------------
(* Claims about estimate_settlement_amount                                 *)

\* number of rows of the population with a positive settlement amount
PositiveSettlements ==
    Cardinality({i \in DOMAIN settlement_store :
                    settlement_store[i] # None /\ settlement_store[i][1] > 0})

\* C17: with n the number of positive settlement amounts of the filtered
\* population, n = 0 gives settlement_range None, confidence "low", a
\* message and no numeric statistic; n >= 1 gives a range with confidence
\* "low" for n < 10, "medium" for 10 <= n < 20 and "high" for n >= 20.
SettlementShapeFollowsSampleCount ==
    pcSettle = "returned" =>
        LET n == PositiveSettlements
        IN  /\ n = 0 =>
                  /\ estimate.settlement_range = None
                  /\ estimate.confidence = "low"
                  /\ DOMAIN estimate = {"settlement_range", "confidence", "message"}
            /\ n >= 1 =>
                  /\ estimate.settlement_range # None
                  /\ estimate.based_on_cases = n
                  /\ estimate.confidence =
                        (IF n < 10 THEN "low" ELSE IF n < 20 THEN "medium" ELSE "high")

\* an estimate from exactly ten settlements was returned
WitnessTenSettlements ==
    /\ pcSettle = "returned"
    /\ PositiveSettlements = 10
    /\ estimate.confidence = "medium"

\* the value at position (n - 1) * p / 100 of the ascending amounts, counted
\* from 0, between two neighbours in proportion to the fractional part
LinearInterpolation(sorted, p) ==
    LET n == Len(sorted)
        f == CHOOSE i \in 0..(n - 1) : 100 * i <= (n - 1) * p /\ (n - 1) * p < 100 * (i + 1)
        part == (n - 1) * p - 100 * f
    IN  IF part = 0 THEN Frac(sorted[f + 1], 1)
        ELSE Frac(100 * sorted[f + 1] + part * (sorted[f + 2] - sorted[f + 1]), 100)

\* C18: for a non-empty list of settlement amounts and no claim amount each
\* percentile is the linear interpolation of the sorted amounts at index
\* (n - 1) * p, so min <= p10 <= p25 <= median <= p75 <= p90 <= max, all
\* seven are equal for a single sample, the amounts 100k, 150k, 200k, 250k,
\* 300k give p25 = 150k, median = 200k, p75 = 250k, and the range returned
\* is low = p25, expected = median, high = p75.
PercentilesInterpolateSortedAmounts ==
    (pcSettle = "returned" /\ claim_amount = None /\ settlements # <<>>) =>
        LET s == estimate.statistics
            sorted == Sorted(settlements)
        IN  /\ s.p10 = LinearInterpolation(sorted, 10)
            /\ s.p25 = LinearInterpolation(sorted, 25)
            /\ s.median = LinearInterpolation(sorted, 50)
            /\ s.p75 = LinearInterpolation(sorted, 75)
            /\ s.p90 = LinearInterpolation(sorted, 90)
            /\ FracLeq(s.min, s.p10) /\ FracLeq(s.p10, s.p25)
            /\ FracLeq(s.p25, s.median) /\ FracLeq(s.median, s.p75)
            /\ FracLeq(s.p75, s.p90) /\ FracLeq(s.p90, s.max)
            /\ Len(settlements) = 1 =>
                  {s.min, s.p10, s.p25, s.median, s.p75, s.p90, s.max}
                  = {<<settlements[1], 1>>}
            /\ settlement_store = ScenarioStore =>
                  s.p25 = <<150, 1>> /\ s.median = <<200, 1>> /\ s.p75 = <<250, 1>>
            /\ estimate.settlement_range =
                  Some([low |-> s.p25, expected |-> s.median, high |-> s.p75])

\* the estimate for the amounts 100k, 150k, 200k, 250k, 300k without a
\* claim amount was returned, its tenth percentile between two amounts
WitnessScenarioSettlements ==
    /\ pcSettle = "returned"
    /\ claim_amount = None
    /\ settlement_store = ScenarioStore
    /\ estimate.statistics.p10 = <<120, 1>>

-----------------------------------------------------------------------------
(* C19 *)

\* the stage fractions as the specification states them
SpecStageFraction(stage) ==
    CASE stage = "filing" -> <<1, 1>>
      [] stage = "discovery" -> <<7, 10>>
      [] stage = "pre_trial" -> <<2, 5>>
      [] stage = "trial" -> <<1, 5>>
      [] stage = "post_trial" -> <<1, 10>>

SpecStages == {"filing", "discovery", "pre_trial", "trial", "post_trial"}

SpecMilestoneFractions == <<<<2, 5>>, <<3, 5>>, <<3, 4>>, <<1, 1>>>>

\* the whole part of a non-negative fraction
WholePart(x) == x[1] \div x[2]

\* the median historical duration of a call: that of the durations the
\* query yields or, when it yields none, the default of the practice area
HistoricalMedian ==
    LET durations == ValidTimelines(SimilarCases(timeline_store, 100))
    IN  IF durations = <<>>
        THEN <<DefaultDays(timeline_area), 1>>
        ELSE Percentile(Sorted(durations), 50)

\* C19: for each of the five case stages and every precedent population,
\* the default path included, the expected days returned are the whole part
\* of the median historical duration times the stage fraction, optimistic
\* <= expected <= pessimistic, and the four milestones lie at the whole
\* parts of 40%, 60%, 75% and 100% of the expected days, in non-decreasing
\* order.
TimelineExpectedDaysFollowStage ==
    (pcTimeline = "returned" /\ case_stage \in SpecStages) =>
        LET days == timeline.estimated_days
            milestones == timeline.milestones
        IN  /\ days.expected =
                  WholePart(FracTimes(HistoricalMedian,
                                      SpecStageFraction(case_stage)))
            /\ days.optimistic <= days.expected
            /\ days.expected <= days.pessimistic
            /\ Len(milestones) = 4
            /\ \A i \in 1..4 :
                  milestones[i].days_from_now =
                      WholePart(FracTimes(<<days.expected, 1>>,
                                          SpecMilestoneFractions[i]))
            /\ \A i \in 1..3 :
                  milestones[i].days_from_now
                      <= milestones[i + 1].days_from_now

-----------------------------------------------------------------------------
(* C20 *)

\* C20: every call of get_clause_extraction_service returns the same
\* instance as every other call of it, and likewise for get_citation_parser,
\* for any number of callers and any interleaving of their first calls: at
\* most one instance of each service is ever created and handed out.
FactoriesHandOutOneInstance ==
    pcFactory # <<>> =>
        /\ \A f \in Factories : created[f] <= 1
        /\ \A c1, c2 \in Callers :
              factory_of[c1] = factory_of[c2] =>
                  \A i \in DOMAIN handed[c1], j \in DOMAIN handed[c2] :
                      handed[c1][i] = handed[c2][j]

-----------------------------------------------------------------------------
(* C21 *)

\* the sum of the risk scores of the clause analyses returned, in hundredths
ReturnedScoreSum == SumSeq([i \in DOMAIN result.clauses |->
                                result.clauses[i].risk_score])

\* C21: for every non-empty clause list the overall_risk_score returned
\* equals min(mean(clause risk scores) + min(0.5 * number of high-or-critical
\* clauses, 3.0), 10.0), lies in [0, 10] and is not below the plain mean, and
\* overall_risk_level is the level the thresholds assign to the returned
\* overall_risk_score.
OverallScoreIsBoostedMeanWithItsLevel ==
    (pcRisk = "returned" /\ result.clauses # <<>>) =>
        LET n == Len(result.clauses)
            k == Cardinality({i \in DOMAIN result.clauses :
                     result.clauses[i].risk_level \in {"critical", "high"}})
            boosted == ReturnedScoreSum + Min(50 * k, 300) * n
        IN  /\ result.overall_risk_score * n = Min(boosted, 1000 * n)
            /\ result.overall_risk_score \in 0..1000
            /\ result.overall_risk_score * n >= ReturnedScoreSum
            /\ result.overall_risk_level
                  = ThresholdLevel(result.overall_risk_score)

-----------------------------------------------------------------------------
(* C22 *)

\* an analysed indemnification clause whose matched risk indicators contain
\* 'unlimited' or 'any and all'
UncappedIndemnityAnalysed ==
    \E i \in DOMAIN clause_analyses :
        /\ clause_analyses[i].clause_type = "indemnification"
        /\ \E j \in DOMAIN clause_analyses[i].risk_indicators :
              clause_analyses[i].risk_indicators[j]
                  \in {"unlimited", "any and all"}

\* C22: whenever the analysed clauses include an indemnification clause
\* whose matched risk indicators contain 'unlimited' or 'any and all', the
\* recommendations contain the critical-priority indemnification
\* recommendation, whatever the clause's confidence or risk level.
UncappedIndemnityGetsCriticalRecommendation ==
    (pcRisk \in {"save", "returned"} /\ UncappedIndemnityAnalysed) =>
        \E i \in DOMAIN recommendations :
            /\ recommendations[i].priority = "critical"
            /\ recommendations[i].category = "indemnification"

-----------------------------------------------------------------------------
(* C23 *)

\* the paragraphs of a document text that have at least 50 characters
LongParagraphs(text) ==
    {i \in DOMAIN text : text[i].kind = "para" /\ JoinLen(text[i].tokens) >= 50}

\* C23: with min_confidence = 0 extract_clauses returns one clause for
\* every paragraph of at least 50 characters, a paragraph matching no
\* keyword as type unknown with confidence 0; with min_confidence > 0 no
\* clause of type unknown is returned.
ZeroThresholdKeepsEveryLongParagraph ==
    \A c \in Calls :
        (pcCall[c] = "returned" /\ requests[c].op = "extract_clauses") =>
            IF requests[c].min_confidence[1] = 0
            THEN /\ Len(returned[c])
                       = Cardinality(LongParagraphs(requests[c].document_text))
                 /\ \A i \in DOMAIN returned[c] :
                       returned[c][i].clause_type = "unknown"
                           => returned[c][i].confidence[1] = 0
            ELSE \A i \in DOMAIN returned[c] :
                    returned[c][i].clause_type # "unknown"

-----------------------------------------------------------------------------
(* C24 *)

\* the number of keywords of a type that occur in the lower-cased text
KeywordHits(t, tokens) ==
    Cardinality({i \in DOMAIN CLAUSE_PATTERNS[t].keywords :
        \E j \in DOMAIN tokens :
            <<Lower(CLAUSE_PATTERNS[t].keywords[i]), Lower(tokens[j])>>
                \in Substrings})

\* the score of a type as the fraction <<n, d>>: hits / size of the keyword
\* set, times 1.5 from two hits on
SpecScore(t, tokens) ==
    LET hits == KeywordHits(t, tokens)
        size == Len(CLAUSE_PATTERNS[t].keywords)
    IN  IF hits >= 2 THEN <<3 * hits, 2 * size>> ELSE <<hits, size>>

\* the first declared type among those with the highest score
SpecBestType(tokens) ==
    LET types == 1..Len(PatternOrder)
        Score(i) == SpecScore(PatternOrder[i], tokens)
        best == CHOOSE i \in types :
                    /\ \A j \in types :
                          Score(j)[1] * Score(i)[2] <= Score(i)[1] * Score(j)[2]
                    /\ \A j \in 1..(i - 1) :
                          Score(j)[1] * Score(i)[2] < Score(i)[1] * Score(j)[2]
    IN  PatternOrder[best]

\* the answers of the specification for every text a client may pass
SpecClassifications ==
    [tokens \in SampleClauseTexts |->
        LET t == SpecBestType(tokens)
            score == SpecScore(t, tokens)
        IN  IF score[1] = 0
            THEN [clause_type |-> "unknown", confidence |-> <<0, 1>>]
            ELSE [clause_type |-> t,
                  confidence |-> IF score[1] >= score[2] THEN <<1, 1>>
                                 ELSE score]]

\* C24: classify_clause returns the type with the highest normalized score
\* (keywords of the type occurring in the lower-cased text / size of its
\* keyword set, times 1.5 from two matches on), the type declared first
\* among several with the highest score, with confidence min(score, 1.0);
\* the result is unknown with confidence 0 exactly when no keyword of any
\* type occurs.
ClassifyReturnsFirstBestType ==
    \A c \in Calls :
        (pcCall[c] = "returned" /\ requests[c].op = "classify_clause") =>
            LET expected == SpecClassifications[requests[c].clause_text]
            IN  /\ returned[c].clause_type = expected.clause_type
                /\ returned[c].confidence[1] * expected.confidence[2]
                      = expected.confidence[1] * returned[c].confidence[2]
                /\ (returned[c].clause_type = "unknown")
                      = (\A t \in DOMAIN CLAUSE_PATTERNS :
                            KeywordHits(t, requests[c].clause_text) = 0)

\* classify_clause returned for the text in which three types score the
\* same, and for the text whose score exceeds 1
WitnessTieAndCapClassified ==
    \E c1, c2 \in Calls :
        /\ pcCall[c1] = "returned" /\ requests[c1].op = "classify_clause"
        /\ requests[c1].clause_text = TieText
        /\ returned[c1].clause_type = "confidentiality"
        /\ SpecScore("confidentiality", TieText)
              = SpecScore("dispute_resolution", TieText)
        /\ SpecScore("arbitration", TieText)
              = SpecScore("dispute_resolution", TieText)
        /\ pcCall[c2] = "returned" /\ requests[c2].op = "classify_clause"
        /\ requests[c2].clause_text = CappedText
        /\ returned[c2].confidence[1] = returned[c2].confidence[2]
        /\ SpecScore("liability_limitation", CappedText) = <<15, 12>>


-----------------------------------------------------------------------------
(* Claims about the jurisdiction boost of rank_cases_by_relevance          *)

\* final_score of a case ranked without a document, so without the boost
\* of lines 458-461
FinalScoreWithoutDocument(case) ==
    RoundHalfEven(BoostedScore(case, [present |-> FALSE, jurisdiction |-> NoneVal],
                               rank_input.practice_area), 10)

\* the ranked entry got the 8 points of the jurisdiction boost
JurisdictionBoosted(entry) ==
    entry.final_score = FinalScoreWithoutDocument(entry.case) + 800

\* the document and the case both carry a jurisdiction string
BothJurisdictionsGiven(case) ==
    /\ rank_input.document.present
    /\ Truthy(rank_input.document.jurisdiction)
    /\ Truthy(case.jurisdiction)

\* C25: a ranked candidate carries the +8 jurisdiction boost exactly when
\* the document's and the candidate's jurisdiction are related in the
\* sense of _jurisdictions_match (equal ignoring case, both containing
\* 'federal', or one a substring of the other).
JurisdictionBoostFollowsRelatedness ==
    pcRank = "returned" =>
        \A j \in DOMAIN ranked :
            JurisdictionBoosted(ranked[j]) <=>
                /\ BothJurisdictionsGiven(ranked[j].case)
                /\ JurisdictionsMatch(rank_input.document.jurisdiction,
                                      ranked[j].case.jurisdiction)


-----------------------------------------------------------------------------
(* Claims about the risk shift of _adjust_for_risk_factors                 *)

\* the shift that is symmetric about 5.0, in units of 1/2000: with
\* f = |risk_score - 5| / 10, settlement 0.10 f, defendant_victory 0.05 f
\* and plaintiff_victory -0.15 f above 5.0, their negatives below
SymmetricShift(risk_score) ==
    LET d == risk_score - 50
    IN  [plaintiff_victory |-> -3 * d, defendant_victory |-> d,
         settlement |-> 2 * d, dismissed |-> 0]

\* the shift the adjustment applied to the statistics, in units of 1/2000
AppliedShift(stats, risk_score) ==
    [k \in OutcomeKeys |-> ShiftedStats(stats, risk_score)[k] - 2 * stats[k]]

\* C26: the shift applied to the outcome statistics of a returned
\* prediction is the one symmetric about risk score 5.0: above 5.0
\* settlement +0.10f, defendant_victory +0.05f, plaintiff_victory -0.15f,
\* below 5.0 the mirror image; dismissed is not shifted and the shifts sum
\* to zero.
RiskShiftIsSymmetricAboutFive ==
    (pcPredict = "returned" /\ risk_assessment.present) =>
        LET stats == CalculateOutcomeProbabilities(precedents)
            shift == AppliedShift(stats, risk_assessment.overall_risk_score)
        IN  /\ shift = SymmetricShift(risk_assessment.overall_risk_score)
            /\ shift.dismissed = 0
            /\ StatsTotal(shift) = 0



-----------------------------------------------------------------------------
(* Claims about the cache of search_cases                                  *)

\* the results answer the request of these arguments, cut to their limit
FetchedFor(data, args) ==
    /\ data.params = SearchParams(args)
    /\ data.limit = args.limit

\* a list is returned that was fetched for the arguments of the call, and
\* a list served from the cache is younger than the TTL
ReturnedListMatchesCall ==
    /\ search_returned.kind \in {"cached", "fetched"} =>
          FetchedFor(search_returned.data[1], search_call)
    /\ search_returned.kind = "cached" =>
          search_returned.at - search_returned.data[1].fetched_at < CacheTtlHours

\* a call that fails adds no entry to the cache and changes none
FailedSearchStoresNothing ==
    (searches' = searches + 1 /\ search_returned'.kind = "failed") =>
        \A k \in DOMAIN search_cache' :
            k \in DOMAIN search_cache /\ search_cache'[k] = search_cache[k]

\* C27: the list a search_cases call returns was fetched for exactly the
\* arguments of that call (query, jurisdiction, court, date_from, date_to,
\* limit); a list served from the cache is younger than the 24-hour TTL,
\* and a failed search stores nothing in the cache.
ReturnedListWasFetchedForTheCall ==
    []ReturnedListMatchesCall /\ [][FailedSearchStoresNothing]_vars


-----------------------------------------------------------------------------
(* Claims about _save_risk_assessment                                      *)

\* the risk fields of the document are those of a document not analysed
\* yet, as every document passed in has them
RiskFieldsUntouched(doc) ==
    /\ doc.risk_score = None
    /\ doc.risk_level = NoneVal
    /\ doc.has_high_risk_clauses = FALSE
    /\ doc.risk_analysis_complete = FALSE

\* the risk fields of the document are those of this run
RiskFieldsOfRun(doc) ==
    /\ doc.risk_score = Some(average_risk)
    /\ doc.risk_level = overall_risk_level
    /\ doc.has_high_risk_clauses = (high_risk_clauses # <<>>)
    /\ doc.risk_analysis_complete = TRUE

\* the rows of one table among the committed rows
CommittedRows(table) ==
    SelectSeq(db_rows, LAMBDA row : row.table = table)

ClauseRowsCarryTheirAnalysis ==
    \A i \in DOMAIN session_added :
        session_added[i].table = "contract_clauses" =>
            /\ session_added[i].risk_score = clause_analyses[i].risk_score
            /\ session_added[i].risk_level = clause_analyses[i].risk_level


-----------------------------------------------------------------------------
(* Claims about process_legal_document                                     *)

\* the steps in the order the method runs them
ProcessSteps ==
    <<"clause_extraction", "risk_analysis", "citation_extraction", "precedent_search">>

\* position of a step in ProcessSteps
StepPosition(step) == CHOOSE i \in DOMAIN ProcessSteps : ProcessSteps[i] = step

\* the step is among steps_completed
StepRecorded(step) ==
    \E i \in DOMAIN process_results.steps_completed :
        process_results.steps_completed[i] = step

\* the completeness computed holds two points beyond the one point of
\* each other step recorded: the share of the risk analysis
RiskShareCounted ==
    /\ process_results.analysis_completeness # None
    /\ process_results.analysis_completeness[1][1]
          - Cardinality({i \in DOMAIN process_results.steps_completed :
                           process_results.steps_completed[i] # "risk_analysis"}) = 2

\* C30: the steps are recorded in the order clause extraction, risk
\* analysis, citation extraction, precedent search, and the risk analysis
\* counts as done only when analyze_document_risk returned in this run:
\* only then 'risk_analysis' is in steps_completed, the document's
\* risk_analysis_complete has been set, and the completeness contains the
\* 2/5 of the risk analysis.
RiskStepRecordedOnlyOnSuccess ==
    /\ \A i, j \in DOMAIN process_results.steps_completed :
          i < j => StepPosition(process_results.steps_completed[i])
                      < StepPosition(process_results.steps_completed[j])
    /\ StepRecorded("risk_analysis") => risk_outcome = "returned"
    /\ (/\ process_document.kind = "extended"
        /\ process_document.risk_analysis_complete
        /\ ~process_input.document.risk_analysis_complete)
          => risk_outcome = "returned"
    /\ RiskShareCounted => risk_outcome = "returned"

=============================================================================
